---- MODULE Spec2Model ----
(***************************************************************************)
(* State-machine model of the vec-memory store: src/memory.ts (memories,   *)
(* relationships, search, traversal), src/database.ts (schema) and the     *)
(* embedding call of src/ollama.ts.                                        *)
(*                                                                         *)
(* Conventions                                                             *)
(*  - a JS string is a sequence of one-character strings;                  *)
(*  - an optional argument is None (= undefined) or Some(v);               *)
(*  - a JS metadata object is a function from a subset of Keys to JS       *)
(*    values; the metadata column holds JSON text (a sequence of           *)
(*    <<key, token>> members);                                             *)
(*  - reals (strength, cosine distance, threshold) are in thousandths;     *)
(*  - an async function is split at its await: a Begin action runs the     *)
(*    code before the await and parks the call in `calls`, a Resume        *)
(*    action runs the rest when the provider has answered.                 *)
(***************************************************************************)
EXTENDS Integers, Sequences, FiniteSets, TLC

VARIABLES
  memories,       \* table memories: id -> row
  relationships,  \* table relationships: id -> row
  embeddings,     \* virtual table memory_embeddings: id -> vector
  vecAvailable,   \* sqlite-vec loaded and memory_embeddings created
  clock,          \* wall clock, in ticks
  nextMem,        \* number of memory ids drawn from randomUUID so far
  nextRel,        \* number of relationship ids drawn so far
  calls,          \* async calls suspended at `await generateEmbedding`
  last            \* the call that completed last: arguments and result

vars == <<memories, relationships, embeddings, vecAvailable, clock,
          nextMem, nextRel, calls, last>>

storage == <<memories, relationships, embeddings>>

-----------------------------------------------------------------------------
(* Bounds of the model *)

MaxMem == 2        \* addMemory calls started (Spec, SpecSearch)
MaxCrud == 1       \* addMemory calls started (SpecMemory)
MaxRel == 2        \* addRelationship calls
MaxClock == 1      \* clock ticks
MaxCalls == 1      \* async calls suspended at the same time
MaxPending == 2    \* async calls suspended at the same time (SpecConcurrent)
TicksPerSec == 2   \* clock ticks per second of CURRENT_TIMESTAMP
HubRel == 101      \* relationships of the hub scenario
MaxEdges == 3      \* relationships of the graphs traversed (SpecTraverse)

(* Program constants *)

DefaultRelLimit == 100      \* getRelationships: limit = 100
DefaultSearchLimit == 10    \* searchMemories: limit = 10
DefaultThreshold == 500     \* searchMemories: threshold = 0.5
DefaultStrength == 1000     \* addRelationship: strength = 1.0
DefaultMaxDepth == 2        \* getConnectedMemories: maxDepth = 2

-----------------------------------------------------------------------------
(* Optional values *)

None == <<>>
Some(v) == <<v>>
IsSome(o) == o # <<>>
Val(o) == o[1]

Min(a, b) == IF a <= b THEN a ELSE b

Remove(f, S) == [k \in DOMAIN f \ S |-> f[k]]

-----------------------------------------------------------------------------
(* Identifiers.  randomUUID() returns a value never returned before; the   *)
(* n-th draw is named "m<n>".  EmptyId is the empty string, which is a     *)
(* string but no UUID.                                                     *)

\* variant: an id that is not random
randomUUIDConstant(n) == "m1"

randomUUID(n) == "m" \o ToString(n)
EmptyId == ""

\* the memory ids drawn so far, in the order drawn
MemoryIds == [n \in 1..(nextMem - 1) |-> randomUUID(n)]

-----------------------------------------------------------------------------
(* JSON.stringify / JSON.parse on metadata objects *)

Keys == <<"n", "type">>

JsFact == "s:fact"          \* the JS string 'fact'
JsOne == "n:1"              \* the JS number 1
JsNaN == "n:NaN"            \* the JS number NaN
JsNull == "null"
JsUndefined == "undefined"

\* JSON.stringify of a property value; undefined has no token
stringifyValue(v) ==
  CASE v = JsFact -> "\"fact\""
    [] v = JsOne -> "1"
    [] v = JsNaN -> "null"
    [] v = JsNull -> "null"

parseValue(tok) ==
  CASE tok = "\"fact\"" -> JsFact
    [] tok = "1" -> JsOne
    [] tok = "null" -> JsNull

RECURSIVE stringifyFrom(_, _)
stringifyFrom(obj, i) ==
  IF i > Len(Keys) THEN <<>>
  ELSE IF Keys[i] \in DOMAIN obj /\ obj[Keys[i]] # JsUndefined
       THEN <<<<Keys[i], stringifyValue(obj[Keys[i]])>>>> \o stringifyFrom(obj, i + 1)
       ELSE stringifyFrom(obj, i + 1)

\* JSON.stringify(metadata): members whose value is undefined are dropped,
\* NaN is written as null
JSONstringify(obj) == stringifyFrom(obj, 1)

\* JSON.parse(row.metadata || '{}'): the column is written by JSON.stringify
\* of an object only, so it is never empty or NULL
JSONparse(text) ==
  [k \in {text[i][1] : i \in DOMAIN text} |->
     parseValue(text[CHOOSE i \in DOMAIN text : text[i][1] = k][2])]

-----------------------------------------------------------------------------
(* Text: content LIKE '%query%' of SQLite, and substring containment *)

lower(ch) ==
  CASE ch = "A" -> "a"
    [] ch = "B" -> "b"
    [] OTHER -> ch

\* SQLite's LIKE: % matches any sequence, _ any one character, ASCII letters
\* match case-insensitively
RECURSIVE Like(_, _)
Like(pat, s) ==
  IF pat = <<>> THEN s = <<>>
  ELSE IF Head(pat) = "%"
       THEN Like(Tail(pat), s) \/ (s # <<>> /\ Like(pat, Tail(s)))
       ELSE /\ s # <<>>
            /\ (Head(pat) = "_" \/ lower(Head(pat)) = lower(Head(s)))
            /\ Like(Tail(pat), Tail(s))

\* the fallback pattern `%${query}%`
LikePattern(query) == <<"%">> \o query \o <<"%">>

\* query occurs in s as a (case-sensitive) substring
Contains(s, query) ==
  \E i \in 0..(Len(s) - Len(query)) : SubSeq(s, i + 1, i + Len(query)) = query

-----------------------------------------------------------------------------
(* Embeddings.  The provider is an opaque function text -> vector; vectors  *)
(* are small integer vectors and vec_distance_cosine is 1 - cos, in        *)
(* thousandths.                                                            *)

Embed(text) ==
  CASE text = <<"a", "b">> -> <<1, 0>>
    [] text = <<"A", "b">> -> <<1, 1>>
    [] text = <<"b">> -> <<0, 1>>
    [] text = <<"a">> -> <<1, 0>>
    [] text = <<"B">> -> <<0, 1>>
    [] OTHER -> <<-1, 0>>

Dot(u, v) == u[1] * v[1] + u[2] * v[2]

\* 1000 * sqrt(n) for the products of squared norms that occur
Sqrt1000(n) ==
  CASE n = 1 -> 1000
    [] n = 2 -> 1414
    [] n = 4 -> 2000

vec_distance_cosine(u, v) ==
  1000 - (Dot(u, v) * 1000000) \div Sqrt1000(Dot(u, u) * Dot(v, v))

-----------------------------------------------------------------------------
(* Timestamps.  A timestamp column holds text: addMemory writes            *)
(* new Date().toISOString() (millisecond resolution), SQLite's             *)
(* CURRENT_TIMESTAMP writes 'YYYY-MM-DD HH:MM:SS' (second resolution).     *)

toISOString(t) == [fmt |-> "iso", t |-> t]
CURRENT_TIMESTAMP == [fmt |-> "sql", t |-> clock \div TicksPerSec]

\* new Date(text), as an instant in ticks
NewDate(ts) == IF ts.fmt = "iso" THEN ts.t ELSE ts.t * TicksPerSec

-----------------------------------------------------------------------------
(* Storage primitives: the SQL statements of memory.ts on the schema of    *)
(* database.ts                                                             *)

\* variant: the metadata column always holds '{}'
InsertMemoryEmptyMetadata(id, content, metadataText, now) ==
  memories @@ (id :> [content |-> content, metadata |-> JSONstringify(<<>>),
                      created_at |-> now, updated_at |-> now])

\* INSERT INTO memories (id, content, metadata, created_at, updated_at)
InsertMemory(id, content, metadataText, now) ==
  memories @@ (id :> [content |-> content, metadata |-> metadataText,
                      created_at |-> now, updated_at |-> now])

\* INSERT INTO memory_embeddings (id, embedding), inside try/catch: the
\* statement throws, and changes nothing, when the vector table is absent
InsertEmbedding(id, vector) ==
  IF vecAvailable /\ id \notin DOMAIN embeddings
  THEN embeddings @@ (id :> vector)
  ELSE embeddings

\* UPDATE memory_embeddings SET embedding = ? WHERE id = ?, inside try/catch
UpdateEmbedding(id, vector) ==
  IF vecAvailable /\ id \in DOMAIN embeddings
  THEN [embeddings EXCEPT ![id] = vector]
  ELSE embeddings

\* variant: deleteMemory without the DELETE FROM memory_embeddings
DeleteEmbeddingSkipped(id) == embeddings

\* DELETE FROM memory_embeddings WHERE id = ?, inside try/catch
DeleteEmbedding(id) ==
  IF vecAvailable THEN Remove(embeddings, {id}) ELSE embeddings

\* the relationships that have the memory as an endpoint
Touching(id) ==
  {r \in DOMAIN relationships :
     relationships[r].from_memory_id = id \/ relationships[r].to_memory_id = id}

\* FOREIGN KEY (from_memory_id / to_memory_id) REFERENCES memories(id)
\* ON DELETE CASCADE.  better-sqlite3 builds SQLite with
\* SQLITE_DEFAULT_FOREIGN_KEYS=1, so the constraints are enforced.
CascadeFromOnly(id) ==
  Remove(relationships,
         {r \in DOMAIN relationships : relationships[r].from_memory_id = id})

CascadeDelete(id) ==
  Remove(relationships,
         {r \in DOMAIN relationships :
            relationships[r].from_memory_id = id \/ relationships[r].to_memory_id = id})

ForeignKeysNotEnforced(fromMemoryId, toMemoryId) == TRUE

\* variant: only from_memory_id is declared a foreign key
ForeignKeyFromOnly(fromMemoryId, toMemoryId) == fromMemoryId \in DOMAIN memories

ForeignKeysHold(fromMemoryId, toMemoryId) ==
  fromMemoryId \in DOMAIN memories /\ toMemoryId \in DOMAIN memories

\* variant: the given metadata is merged into the stored metadata
UpdateMemoryRowMerging(id, content, metadata) ==
  IF id \in DOMAIN memories
  THEN [memories EXCEPT ![id] =
          [content |-> IF IsSome(content) THEN Val(content) ELSE @.content,
           metadata |-> IF IsSome(metadata)
                        THEN LET old == JSONparse(@.metadata)
                                 new == Val(metadata)
                             IN JSONstringify(
                                  [k \in DOMAIN old \cup DOMAIN new |->
                                     IF k \in DOMAIN new THEN new[k] ELSE old[k]])
                        ELSE @.metadata,
           created_at |-> @.created_at,
           updated_at |-> CURRENT_TIMESTAMP]]
  ELSE memories

\* UPDATE memories SET [content = ?,] [metadata = ?,] updated_at =
\* CURRENT_TIMESTAMP WHERE id = ?; the trigger update_memories_updated_at
\* sets updated_at = CURRENT_TIMESTAMP once more
UpdateMemoryRow(id, content, metadata) ==
  IF id \in DOMAIN memories
  THEN [memories EXCEPT ![id] =
          [content |-> IF IsSome(content) THEN Val(content) ELSE @.content,
           metadata |-> IF IsSome(metadata) THEN JSONstringify(Val(metadata))
                        ELSE @.metadata,
           created_at |-> @.created_at,
           updated_at |-> CURRENT_TIMESTAMP]]
  ELSE memories

\* the row -> Memory mapping of getMemory and searchMemories
RowToMemory(id) ==
  [id |-> id,
   content |-> memories[id].content,
   metadata |-> JSONparse(memories[id].metadata),
   created_at |-> NewDate(memories[id].created_at),
   updated_at |-> NewDate(memories[id].updated_at)]

\* getMemory(id): None is null
getMemory(id) ==
  IF id \in DOMAIN memories THEN Some(RowToMemory(id)) ELSE None

-----------------------------------------------------------------------------
(* Memory operations *)

\* variant: the memory row is inserted before the embedding is requested
AddMemoryBeginInsertsRow(content, metadata) ==
  /\ calls' = calls \cup {[op |-> "addMemory", id |-> randomUUID(nextMem),
                           now |-> toISOString(clock),
                           content |-> content, metadata |-> metadata]}
  /\ memories' = InsertMemory(randomUUID(nextMem), content, JSONstringify(metadata),
                              toISOString(clock))
  /\ nextMem' = nextMem + 1
  /\ UNCHANGED <<relationships, embeddings, vecAvailable, clock, nextRel, last>>

\* addMemory up to `await generateEmbedding(content, ollamaConfig)`
AddMemoryBegin(content, metadata) ==
  /\ calls' = calls \cup {[op |-> "addMemory", id |-> randomUUID(nextMem),
                           now |-> toISOString(clock),
                           content |-> content, metadata |-> metadata]}
  /\ nextMem' = nextMem + 1
  /\ UNCHANGED <<storage, vecAvailable, clock, nextRel, last>>

\* variant: the memory row is written before the embedding is awaited, so it
\* stays when generateEmbedding throws
AddMemoryInsertFirst(c, embedded) ==
  /\ c \in calls /\ c.op = "addMemory"
  /\ calls' = calls \ {c}
  /\ memories' = InsertMemory(c.id, c.content, JSONstringify(c.metadata), c.now)
  /\ embeddings' = IF embedded THEN InsertEmbedding(c.id, Embed(c.content))
                   ELSE embeddings
  /\ last' = [op |-> "addMemory", content |-> c.content,
              metadata |-> c.metadata, providerFailed |-> ~embedded,
              threw |-> ~embedded, id |-> c.id,
              ret |-> IF embedded THEN c.id ELSE EmptyId]
  /\ UNCHANGED <<relationships, vecAvailable, clock, nextMem, nextRel>>

\* variant: a failing INSERT INTO memory_embeddings is not caught, so the
\* call rejects after the memory row is written
AddMemoryStrict(c, embedded) ==
  /\ c \in calls /\ c.op = "addMemory"
  /\ calls' = calls \ {c}
  /\ IF embedded
     THEN /\ memories' = InsertMemory(c.id, c.content, JSONstringify(c.metadata), c.now)
          /\ embeddings' = InsertEmbedding(c.id, Embed(c.content))
          /\ last' = [op |-> "addMemory", content |-> c.content,
                      metadata |-> c.metadata, providerFailed |-> FALSE,
                      threw |-> ~vecAvailable, id |-> c.id,
                      ret |-> IF vecAvailable THEN c.id ELSE EmptyId]
     ELSE /\ UNCHANGED <<memories, embeddings>>
          /\ last' = [op |-> "addMemory", content |-> c.content,
                      metadata |-> c.metadata, providerFailed |-> TRUE,
                      threw |-> TRUE, id |-> c.id, ret |-> EmptyId]
  /\ UNCHANGED <<relationships, vecAvailable, clock, nextMem, nextRel>>

\* addMemory after the await; embedded = FALSE: generateEmbedding threw
AddMemoryResume(c, embedded) ==
  /\ c \in calls /\ c.op = "addMemory"
  /\ calls' = calls \ {c}
  /\ IF embedded
     THEN /\ memories' = InsertMemory(c.id, c.content, JSONstringify(c.metadata), c.now)
          /\ embeddings' = InsertEmbedding(c.id, Embed(c.content))
          /\ last' = [op |-> "addMemory", content |-> c.content,
                      metadata |-> c.metadata, providerFailed |-> FALSE,
                      threw |-> FALSE, id |-> c.id, ret |-> c.id]
     ELSE /\ UNCHANGED <<memories, embeddings>>
          /\ last' = [op |-> "addMemory", content |-> c.content,
                      metadata |-> c.metadata, providerFailed |-> TRUE,
                      threw |-> TRUE, id |-> c.id, ret |-> EmptyId]
  /\ UNCHANGED <<relationships, vecAvailable, clock, nextMem, nextRel>>

\* getMemory(id)
GetMemory(id) ==
  /\ last' = [op |-> "getMemory", id |-> id, threw |-> FALSE, ret |-> getMemory(id)]
  /\ UNCHANGED <<storage, vecAvailable, clock, nextMem, nextRel, calls>>

\* variant: the UPDATE runs also when no field is given, setting updated_at
UpdateMemoryAlwaysWrites(id, content, metadata) ==
  LET done(ret) == [op |-> "updateMemory", id |-> id, content |-> content,
                    metadata |-> metadata, providerFailed |-> FALSE,
                    threw |-> FALSE, ret |-> ret,
                    existed |-> id \in DOMAIN memories,
                    hadEmbedding |-> id \in DOMAIN embeddings]
  IN
  /\ IF getMemory(id) = None
     THEN /\ last' = done(FALSE)
          /\ UNCHANGED <<memories, calls>>
     ELSE IF IsSome(content)
     THEN /\ calls' = calls \cup {[op |-> "updateMemory", id |-> id,
                                   content |-> content, metadata |-> metadata]}
          /\ UNCHANGED <<memories, last>>
     ELSE /\ memories' = UpdateMemoryRow(id, content, metadata)
          /\ last' = done(id \in DOMAIN memories)
          /\ UNCHANGED calls
  /\ UNCHANGED <<relationships, embeddings, vecAvailable, clock, nextMem, nextRel>>

\* variant: without the `if (!memory)` return
UpdateMemoryUnchecked(id, content, metadata) ==
  LET done(ret) == [op |-> "updateMemory", id |-> id, content |-> content,
                    metadata |-> metadata, providerFailed |-> FALSE,
                    threw |-> FALSE, ret |-> ret,
                    existed |-> id \in DOMAIN memories,
                    hadEmbedding |-> id \in DOMAIN embeddings]
  IN
  /\ IF IsSome(content)
     THEN /\ calls' = calls \cup {[op |-> "updateMemory", id |-> id,
                                   content |-> content, metadata |-> metadata]}
          /\ UNCHANGED <<memories, last>>
     ELSE IF ~IsSome(metadata)
     THEN /\ last' = done(TRUE)
          /\ UNCHANGED <<memories, calls>>
     ELSE /\ memories' = UpdateMemoryRow(id, content, metadata)
          /\ last' = done(id \in DOMAIN memories)
          /\ UNCHANGED calls
  /\ UNCHANGED <<relationships, embeddings, vecAvailable, clock, nextMem, nextRel>>

\* variant: the UPDATE of the memory row runs before the embedding is
\* requested, the UPDATE of the embedding row after it
UpdateMemoryBeginWritesRow(id, content, metadata) ==
  LET done(ret) == [op |-> "updateMemory", id |-> id, content |-> content,
                    metadata |-> metadata, providerFailed |-> FALSE,
                    threw |-> FALSE, ret |-> ret,
                    existed |-> id \in DOMAIN memories,
                    hadEmbedding |-> id \in DOMAIN embeddings]
  IN
  /\ IF getMemory(id) = None
     THEN /\ last' = done(FALSE)
          /\ UNCHANGED <<memories, calls>>
     ELSE IF IsSome(content)
     THEN /\ calls' = calls \cup {[op |-> "updateMemory", id |-> id,
                                   content |-> content, metadata |-> metadata]}
          /\ memories' = UpdateMemoryRow(id, content, metadata)
          /\ UNCHANGED last
     ELSE IF ~IsSome(metadata)
     THEN /\ last' = done(TRUE)
          /\ UNCHANGED <<memories, calls>>
     ELSE /\ memories' = UpdateMemoryRow(id, content, metadata)
          /\ last' = done(id \in DOMAIN memories)
          /\ UNCHANGED calls
  /\ UNCHANGED <<relationships, embeddings, vecAvailable, clock, nextMem, nextRel>>

\* updateMemory up to its first await, or to its end when it has none:
\* missing memory -> false; no content -> the UPDATE runs at once
UpdateMemoryBegin(id, content, metadata) ==
  LET done(ret) == [op |-> "updateMemory", id |-> id, content |-> content,
                    metadata |-> metadata, providerFailed |-> FALSE,
                    threw |-> FALSE, ret |-> ret,
                    existed |-> id \in DOMAIN memories,
                    hadEmbedding |-> id \in DOMAIN embeddings]
  IN
  /\ IF getMemory(id) = None
     THEN /\ last' = done(FALSE)
          /\ UNCHANGED <<memories, calls>>
     ELSE IF IsSome(content)
     THEN /\ calls' = calls \cup {[op |-> "updateMemory", id |-> id,
                                   content |-> content, metadata |-> metadata]}
          /\ UNCHANGED <<memories, last>>
     ELSE IF ~IsSome(metadata)
     THEN /\ last' = done(TRUE)
          /\ UNCHANGED <<memories, calls>>
     ELSE /\ memories' = UpdateMemoryRow(id, content, metadata)
          /\ last' = done(id \in DOMAIN memories)
          /\ UNCHANGED calls
  /\ UNCHANGED <<relationships, embeddings, vecAvailable, clock, nextMem, nextRel>>

\* variant: the UPDATE of the memory row does not wait for the embedding, so
\* it has run when generateEmbedding throws
UpdateMemoryWritesFirst(c, embedded) ==
  /\ c \in calls /\ c.op = "updateMemory"
  /\ calls' = calls \ {c}
  /\ embeddings' = IF embedded THEN UpdateEmbedding(c.id, Embed(Val(c.content)))
                   ELSE embeddings
  /\ memories' = UpdateMemoryRow(c.id, c.content, c.metadata)
  /\ last' = [op |-> "updateMemory", id |-> c.id, content |-> c.content,
              metadata |-> c.metadata, providerFailed |-> ~embedded,
              threw |-> ~embedded,
              ret |-> embedded /\ c.id \in DOMAIN memories,
              existed |-> c.id \in DOMAIN memories,
              hadEmbedding |-> c.id \in DOMAIN embeddings]
  /\ UNCHANGED <<relationships, vecAvailable, clock, nextMem, nextRel>>

\* variant: the rows are written with INSERT OR REPLACE
UpdateMemoryResumeUpserts(c, embedded) ==
  /\ c \in calls /\ c.op = "updateMemory"
  /\ calls' = calls \ {c}
  /\ IF embedded
     THEN /\ embeddings' = IF vecAvailable
                           THEN [id \in DOMAIN embeddings \cup {c.id} |->
                                   IF id = c.id THEN Embed(Val(c.content))
                                   ELSE embeddings[id]]
                           ELSE embeddings
          /\ memories' = IF c.id \in DOMAIN memories
                         THEN UpdateMemoryRow(c.id, c.content, c.metadata)
                         ELSE InsertMemory(c.id, Val(c.content), <<>>,
                                           CURRENT_TIMESTAMP)
          /\ last' = [op |-> "updateMemory", id |-> c.id, content |-> c.content,
                      metadata |-> c.metadata, providerFailed |-> FALSE,
                      threw |-> FALSE, ret |-> TRUE,
                      existed |-> c.id \in DOMAIN memories,
                      hadEmbedding |-> c.id \in DOMAIN embeddings,
                      suspended |-> TRUE]
     ELSE /\ UNCHANGED <<memories, embeddings>>
          /\ last' = [op |-> "updateMemory", id |-> c.id, content |-> c.content,
                      metadata |-> c.metadata, providerFailed |-> TRUE,
                      threw |-> TRUE, ret |-> FALSE,
                      existed |-> c.id \in DOMAIN memories,
                      hadEmbedding |-> c.id \in DOMAIN embeddings,
                      suspended |-> TRUE]
  /\ UNCHANGED <<relationships, vecAvailable, clock, nextMem, nextRel>>

\* updateMemory with content, after `await generateEmbedding(content, ...)`;
\* `suspended` marks the result of a call that was suspended at the await
UpdateMemoryResume(c, embedded) ==
  /\ c \in calls /\ c.op = "updateMemory"
  /\ calls' = calls \ {c}
  /\ IF embedded
     THEN /\ embeddings' = UpdateEmbedding(c.id, Embed(Val(c.content)))
          /\ memories' = UpdateMemoryRow(c.id, c.content, c.metadata)
          /\ last' = [op |-> "updateMemory", id |-> c.id, content |-> c.content,
                      metadata |-> c.metadata, providerFailed |-> FALSE,
                      threw |-> FALSE, ret |-> c.id \in DOMAIN memories,
                      existed |-> c.id \in DOMAIN memories,
                      hadEmbedding |-> c.id \in DOMAIN embeddings,
                      suspended |-> TRUE]
     ELSE /\ UNCHANGED <<memories, embeddings>>
          /\ last' = [op |-> "updateMemory", id |-> c.id, content |-> c.content,
                      metadata |-> c.metadata, providerFailed |-> TRUE,
                      threw |-> TRUE, ret |-> FALSE,
                      existed |-> c.id \in DOMAIN memories,
                      hadEmbedding |-> c.id \in DOMAIN embeddings,
                      suspended |-> TRUE]
  /\ UNCHANGED <<relationships, vecAvailable, clock, nextMem, nextRel>>

\* variant: the embedding row is deleted only when a memory row was deleted
DeleteMemoryEmbeddingIfRemoved(id) ==
  /\ memories' = Remove(memories, {id})
  /\ relationships' = IF id \in DOMAIN memories THEN CascadeDelete(id)
                      ELSE relationships
  /\ embeddings' = IF id \in DOMAIN memories THEN DeleteEmbedding(id) ELSE embeddings
  /\ last' = [op |-> "deleteMemory", id |-> id, threw |-> FALSE,
              ret |-> id \in DOMAIN memories,
              existed |-> id \in DOMAIN memories,
              hadEmbedding |-> id \in DOMAIN embeddings,
              linked |-> Touching(id)]
  /\ UNCHANGED <<vecAvailable, clock, nextMem, nextRel, calls>>

\* deleteMemory(id)
DeleteMemory(id) ==
  /\ memories' = Remove(memories, {id})
  /\ relationships' = IF id \in DOMAIN memories THEN CascadeDelete(id)
                      ELSE relationships
  /\ embeddings' = DeleteEmbedding(id)
  /\ last' = [op |-> "deleteMemory", id |-> id, threw |-> FALSE,
              ret |-> id \in DOMAIN memories,
              existed |-> id \in DOMAIN memories,
              hadEmbedding |-> id \in DOMAIN embeddings,
              linked |-> Touching(id)]
  /\ UNCHANGED <<vecAvailable, clock, nextMem, nextRel, calls>>

-----------------------------------------------------------------------------
(* ORDER BY key ASC LIMIT n: every sequence the statement may return.  Rows *)
(* with equal keys come in an unspecified order; a negative n is no limit. *)

RECURSIVE OrderWithTies(_, _, _)
OrderWithTies(S, key, n) ==
  IF n = 0 \/ S = {} THEN {<<>>}
  ELSE UNION {{<<x>> \o t : t \in OrderWithTies(S \ {x}, key, n - 1)} :
              x \in {y \in S : \A z \in S : key[y] <= key[z]}}

\* rows: the rows the WHERE clause keeps, in table order.  With no two
\* keys equal there is one order, the sorted one.
OrderByLimit(rows, key, n) ==
  LET S == {rows[i] : i \in DOMAIN rows}
      len == IF n < 0 THEN Len(rows) ELSE Min(n, Len(rows))
  IN IF Cardinality({key[x] : x \in S}) < Cardinality(S)
     THEN OrderWithTies(S, key, n)
     ELSE {SubSeq(SortSeq(rows, LAMBDA a, b : key[a] < key[b]), 1, len)}

-----------------------------------------------------------------------------
(* searchMemories *)

\* variant: distance <= ? in place of distance < ?
VectorWhereInclusive(queryEmbedding, threshold) ==
  {id \in DOMAIN memories \cap DOMAIN embeddings :
     vec_distance_cosine(embeddings[id], queryEmbedding) <= 1000 - threshold}

\* FROM memories m JOIN memory_embeddings v ON m.id = v.id
\* WHERE vec_distance_cosine(v.embedding, ?) < ?      (? = 1 - threshold)
VectorWhere(queryEmbedding, threshold) ==
  {id \in DOMAIN memories \cap DOMAIN embeddings :
     vec_distance_cosine(embeddings[id], queryEmbedding) < 1000 - threshold}

\* ... ORDER BY distance ASC LIMIT ?
VectorSearch(query, limit, threshold) ==
  LET q == Embed(query)
      S == VectorWhere(q, threshold)
  IN OrderByLimit(SelectSeq(MemoryIds, LAMBDA id : id \in S),
                  [id \in S |-> vec_distance_cosine(embeddings[id], q)], limit)

\* variant: ORDER BY created_at ASC
TextSearchOldestFirst(query, limit) ==
  LET S == {id \in DOMAIN memories : Like(LikePattern(query), memories[id].content)}
  IN OrderByLimit(SelectSeq(MemoryIds, LAMBDA id : id \in S),
                  [id \in S |-> memories[id].created_at.t], limit)

\* FROM memories WHERE content LIKE ?                 (? = `%${query}%`)
TextWhere(query) ==
  {id \in DOMAIN memories : Like(LikePattern(query), memories[id].content)}

\* ... ORDER BY created_at DESC LIMIT ?; created_at of a memory is always
\* toISOString text, whose text order is the order of the instants
TextSearch(query, limit) ==
  LET S == TextWhere(query)
  IN OrderByLimit(SelectSeq(MemoryIds, LAMBDA id : id \in S),
                  [id \in S |-> 0 - memories[id].created_at.t], limit)

\* variant: a missing vector table yields an empty result, not an exception
VectorPathIgnoresIndex(embedded) == ~embedded

\* the vector statement raises when the vector table or the distance
\* function is absent
VectorPathRaises(embedded) == ~embedded \/ ~vecAvailable

\* searchMemories up to `await generateEmbedding(query, ollamaConfig)`
SearchMemoriesBegin(query, limit, threshold) ==
  /\ calls' = calls \cup {[op |-> "searchMemories", query |-> query,
                           limit |-> limit, threshold |-> threshold]}
  /\ UNCHANGED <<storage, vecAvailable, clock, nextMem, nextRel, last>>

\* variant: the vector statement reads FROM memory_embeddings v LEFT JOIN
\* memories m, so a row of the index with no memory is returned by its id
SearchMemoriesResumeFromIndex(c, embedded) ==
  /\ c \in calls /\ c.op = "searchMemories"
  /\ calls' = calls \ {c}
  /\ \E rows \in IF VectorPathRaises(embedded)
                 THEN TextSearch(c.query, c.limit)
                 ELSE LET q == Embed(c.query)
                          S == {id \in DOMAIN embeddings :
                                  vec_distance_cosine(embeddings[id], q)
                                    < 1000 - c.threshold}
                      IN OrderByLimit(SelectSeq(MemoryIds, LAMBDA id : id \in S),
                                      [id \in S |-> vec_distance_cosine(embeddings[id], q)],
                                      c.limit) :
       last' = [op |-> "searchMemories", query |-> c.query, limit |-> c.limit,
                threshold |-> c.threshold, providerFailed |-> ~embedded,
                threw |-> FALSE,
                ret |-> [i \in DOMAIN rows |->
                           IF rows[i] \in DOMAIN memories THEN RowToMemory(rows[i])
                           ELSE [id |-> rows[i]]]]
  /\ UNCHANGED <<storage, vecAvailable, clock, nextMem, nextRel>>

\* searchMemories after the await: the vector statement, or on any
\* exception of the vector path the LIKE statement
SearchMemoriesResume(c, embedded) ==
  /\ c \in calls /\ c.op = "searchMemories"
  /\ calls' = calls \ {c}
  /\ \E rows \in IF VectorPathRaises(embedded)
                 THEN TextSearch(c.query, c.limit)
                 ELSE VectorSearch(c.query, c.limit, c.threshold) :
       last' = [op |-> "searchMemories", query |-> c.query, limit |-> c.limit,
                threshold |-> c.threshold, providerFailed |-> ~embedded,
                threw |-> FALSE,
                ret |-> [i \in DOMAIN rows |-> RowToMemory(rows[i])]]
  /\ UNCHANGED <<storage, vecAvailable, clock, nextMem, nextRel>>

-----------------------------------------------------------------------------
(* Relationships *)

RelId(n) == "r" \o ToString(n)

\* the ids drawn so far, in the order drawn
RelationshipIds == [n \in 1..(nextRel - 1) |-> RelId(n)]

\* addRelationship(fromMemoryId, toMemoryId, relationshipType, strength,
\* metadata): the INSERT throws SQLITE_CONSTRAINT_FOREIGNKEY when an endpoint
\* is no memory
AddRelationship(fromMemoryId, toMemoryId, relationshipType, strength, metadata) ==
  /\ IF ForeignKeysHold(fromMemoryId, toMemoryId)
     THEN /\ relationships' = relationships @@
               (RelId(nextRel) :>
                  [from_memory_id |-> fromMemoryId, to_memory_id |-> toMemoryId,
                   relationship_type |-> relationshipType, strength |-> strength,
                   metadata |-> JSONstringify(metadata),
                   created_at |-> CURRENT_TIMESTAMP])
          /\ last' = [op |-> "addRelationship", from |-> fromMemoryId,
                      to |-> toMemoryId, threw |-> FALSE, ret |-> RelId(nextRel)]
     ELSE /\ UNCHANGED relationships
          /\ last' = [op |-> "addRelationship", from |-> fromMemoryId,
                      to |-> toMemoryId, threw |-> TRUE, ret |-> EmptyId]
  /\ nextRel' = nextRel + 1
  /\ UNCHANGED <<memories, embeddings, vecAvailable, clock, nextMem, calls>>

\* variant: WHERE strength > ?
RelWhereExclusive(q) ==
  {r \in DOMAIN relationships :
     LET row == relationships[r] IN
     /\ row.strength > q.minStrength
     /\ q.memoryId # EmptyId =>
          CASE q.direction = "from" -> row.from_memory_id = q.memoryId
            [] q.direction = "to" -> row.to_memory_id = q.memoryId
            [] OTHER -> row.from_memory_id = q.memoryId \/ row.to_memory_id = q.memoryId
     /\ q.relationshipType # "" => row.relationship_type = q.relationshipType}

\* the WHERE clause of getRelationships; an empty memoryId or
\* relationshipType is falsy and adds no condition
RelWhere(q) ==
  {r \in DOMAIN relationships :
     LET row == relationships[r] IN
     /\ row.strength >= q.minStrength
     /\ q.memoryId # EmptyId =>
          CASE q.direction = "from" -> row.from_memory_id = q.memoryId
            [] q.direction = "to" -> row.to_memory_id = q.memoryId
            [] OTHER -> row.from_memory_id = q.memoryId \/ row.to_memory_id = q.memoryId
     /\ q.relationshipType # "" => row.relationship_type = q.relationshipType}

\* const { memoryId, relationshipType, direction = 'both', minStrength = 0,
\*         limit = 100 } = query
RelationshipQuery(memoryId) ==
  [memoryId |-> memoryId, relationshipType |-> "", direction |-> "both",
   minStrength |-> 0, limit |-> DefaultRelLimit]

\* variant: ORDER BY strength DESC, created_at ASC
RelKeyOldestFirst(r) ==
  0 - (relationships[r].strength * (MaxClock + 1) - relationships[r].created_at.t)

\* ORDER BY strength DESC, created_at DESC: one ascending key
RelKey(r) ==
  0 - (relationships[r].strength * (MaxClock + 1) + relationships[r].created_at.t)

\* getRelationships(query): every list it may return (of relationship ids;
\* the rows are mapped one to one)
getRelationships(q) ==
  LET S == RelWhere(q)
  IN OrderByLimit(SelectSeq(RelationshipIds, LAMBDA r : r \in S),
                  [r \in S |-> RelKey(r)], q.limit)

\* the row -> Relationship mapping of getRelationships
RowToRelationship(id) ==
  [id |-> id,
   from_memory_id |-> relationships[id].from_memory_id,
   to_memory_id |-> relationships[id].to_memory_id,
   relationship_type |-> relationships[id].relationship_type,
   strength |-> relationships[id].strength,
   metadata |-> JSONparse(relationships[id].metadata),
   created_at |-> NewDate(relationships[id].created_at)]

\* getRelationships(query) as a call; q is the query after its defaults are
\* filled in
GetRelationships(q) ==
  /\ \E ids \in getRelationships(q) :
       last' = [op |-> "getRelationships", query |-> q, threw |-> FALSE,
                ret |-> [i \in DOMAIN ids |-> RowToRelationship(ids[i])]]
  /\ UNCHANGED <<storage, vecAvailable, clock, nextMem, nextRel, calls>>

\* variant: an update of a relationship advances updated_at of its endpoints
UpdateRelationshipTouchesMemories(id, strength, metadata) ==
  /\ relationships' =
       IF id \in DOMAIN relationships
       THEN [relationships EXCEPT ![id] =
               [@ EXCEPT !.strength = IF IsSome(strength) THEN Val(strength) ELSE @,
                         !.metadata = IF IsSome(metadata)
                                      THEN JSONstringify(Val(metadata)) ELSE @]]
       ELSE relationships
  /\ memories' =
       [m \in DOMAIN memories |->
          IF /\ id \in DOMAIN relationships
             /\ m \in {relationships[id].from_memory_id, relationships[id].to_memory_id}
          THEN [memories[m] EXCEPT !.updated_at = CURRENT_TIMESTAMP]
          ELSE memories[m]]
  /\ last' = [op |-> "updateRelationship", id |-> id, threw |-> FALSE,
              ret |-> id \in DOMAIN relationships]
  /\ UNCHANGED <<embeddings, vecAvailable, clock, nextMem, nextRel, calls>>

\* updateRelationship(id, strength?, metadata?)
UpdateRelationship(id, strength, metadata) ==
  /\ IF ~IsSome(strength) /\ ~IsSome(metadata)
     THEN /\ UNCHANGED relationships
          /\ last' = [op |-> "updateRelationship", id |-> id, threw |-> FALSE,
                      ret |-> TRUE]
     ELSE /\ relationships' =
               IF id \in DOMAIN relationships
               THEN [relationships EXCEPT ![id] =
                       [@ EXCEPT !.strength = IF IsSome(strength) THEN Val(strength) ELSE @,
                                 !.metadata = IF IsSome(metadata)
                                              THEN JSONstringify(Val(metadata)) ELSE @]]
               ELSE relationships
          /\ last' = [op |-> "updateRelationship", id |-> id, threw |-> FALSE,
                      ret |-> id \in DOMAIN relationships]
  /\ UNCHANGED <<memories, embeddings, vecAvailable, clock, nextMem, nextRel, calls>>

\* deleteRelationship(id)
DeleteRelationship(id) ==
  /\ relationships' = Remove(relationships, {id})
  /\ last' = [op |-> "deleteRelationship", id |-> id, threw |-> FALSE,
              ret |-> id \in DOMAIN relationships]
  /\ UNCHANGED <<memories, embeddings, vecAvailable, clock, nextMem, nextRel, calls>>

-----------------------------------------------------------------------------
(* getConnectedMemories *)

\* variant: the for-loop without the `!visited.has(nextId)` test
VisitRelationshipsRevisiting(rels, node, st) ==
  LET nextId(i) == LET rel == relationships[rels[i]]
                   IN IF rel.from_memory_id = node.id THEN rel.to_memory_id
                      ELSE rel.from_memory_id
      added == [i \in DOMAIN rels |-> <<i, nextId(i)>>]
  IN <<st[1] \cup {added[i][2] : i \in DOMAIN added},
       st[2] \o [i \in DOMAIN added |-> [id |-> added[i][2], depth |-> node.depth + 1]],
       st[3] \o [i \in DOMAIN added |-> added[i][2]]>>

\* the for-loop over one node's relationships; st = <<visited, queue,
\* connectedIds>>.  A nextId is added at its first occurrence in the list
\* unless it was visited before the loop.
VisitRelationships(rels, node, st) ==
  LET nextId(i) == LET rel == relationships[rels[i]]
                   IN IF rel.from_memory_id = node.id THEN rel.to_memory_id
                      ELSE rel.from_memory_id
      steps == [i \in DOMAIN rels |-> <<i, nextId(i)>>]
      added == SelectSeq(steps, LAMBDA p :
                 /\ p[2] \notin st[1]
                 /\ \A j \in 1..(p[1] - 1) : steps[j][2] # p[2])
  IN <<st[1] \cup {added[i][2] : i \in DOMAIN added},
       st[2] \o [i \in DOMAIN added |-> [id |-> added[i][2], depth |-> node.depth + 1]],
       st[3] \o [i \in DOMAIN added |-> added[i][2]]>>

\* the while-loop: every connectedIds list it may end with
RECURSIVE Traverse(_, _, _, _)
Traverse(queue, visited, connectedIds, maxDepth) ==
  IF queue = <<>> THEN {connectedIds}
  ELSE LET node == Head(queue) IN
       IF node.depth >= maxDepth
       THEN Traverse(Tail(queue), visited, connectedIds, maxDepth)
       ELSE UNION {LET st == VisitRelationships(rels, node,
                                <<visited, Tail(queue), connectedIds>>)
                   IN Traverse(st[2], st[1], st[3], maxDepth) :
                   rels \in getRelationships(RelationshipQuery(node.id))}

\* Array.from(connectedIds).map(id => getMemory(id)).filter(memory !== null)
ResolveMemories(ids) ==
  LET kept == SelectSeq(ids, LAMBDA id : getMemory(id) # None)
  IN [i \in DOMAIN kept |-> Val(getMemory(kept[i]))]

\* getConnectedMemories(memoryId, maxDepth): every list it may return
getConnectedMemories(memoryId, maxDepth) ==
  {ResolveMemories(ids) :
     ids \in Traverse(<<[id |-> memoryId, depth |-> 0]>>, {memoryId}, <<>>, maxDepth)}

GetConnectedMemories(memoryId, maxDepth) ==
  /\ \E result \in getConnectedMemories(memoryId, maxDepth) :
       last' = [op |-> "getConnectedMemories", id |-> memoryId,
                maxDepth |-> maxDepth, threw |-> FALSE, ret |-> result]
  /\ UNCHANGED <<storage, vecAvailable, clock, nextMem, nextRel, calls>>

-----------------------------------------------------------------------------
(* getConnectedMemories, loop iteration by loop iteration.  The record of   *)
(* the call holds its locals and, for the properties, the nodes whose       *)
(* relationships were fetched and the ids pushed on the queue, in order.    *)

\* the code before the while-loop
ConnectedBegin(memoryId, maxDepth) ==
  /\ calls' = calls \cup
       {[op |-> "getConnectedMemories", id |-> memoryId, maxDepth |-> maxDepth,
         visited |-> {memoryId},
         queue |-> <<[id |-> memoryId, depth |-> 0]>>,
         connectedIds |-> <<>>,
         fetched |-> <<>>, enqueued |-> <<memoryId>>]}
  /\ UNCHANGED <<storage, vecAvailable, clock, nextMem, nextRel, last>>

\* one iteration: queue.shift(), `if (depth >= maxDepth) continue`, else
\* getRelationships({ memoryId: id }) and the for-loop over its result
ConnectedIteration(c) ==
  /\ c \in calls /\ c.op = "getConnectedMemories" /\ c.queue # <<>>
  /\ LET node == Head(c.queue) IN
     IF node.depth >= c.maxDepth
     THEN calls' = (calls \ {c}) \cup {[c EXCEPT !.queue = Tail(@)]}
     ELSE \E rels \in getRelationships(RelationshipQuery(node.id)) :
            LET st == VisitRelationships(rels, node,
                                         <<c.visited, Tail(c.queue), c.connectedIds>>)
            IN calls' = (calls \ {c}) \cup
                 {[c EXCEPT !.visited = st[1], !.queue = st[2],
                            !.connectedIds = st[3],
                            !.fetched = Append(@, node),
                            !.enqueued = @ \o SubSeq(st[3], Len(c.connectedIds) + 1,
                                                     Len(st[3]))]}
  /\ UNCHANGED <<storage, vecAvailable, clock, nextMem, nextRel, last>>

\* the queue is empty: the ids are resolved and the memories returned
ConnectedReturn(c) ==
  /\ c \in calls /\ c.op = "getConnectedMemories" /\ c.queue = <<>>
  /\ calls' = calls \ {c}
  /\ last' = [op |-> "getConnectedMemories", id |-> c.id, maxDepth |-> c.maxDepth,
              threw |-> FALSE, ret |-> ResolveMemories(c.connectedIds),
              visited |-> c.visited, fetched |-> c.fetched,
              enqueued |-> c.enqueued]
  /\ UNCHANGED <<storage, vecAvailable, clock, nextMem, nextRel>>

-----------------------------------------------------------------------------
(* ensureOllamaRunning.  The call is suspended at each await; its record in *)
(* `calls` holds the await it is at (pc), the local `retries`, and two      *)
(* counters kept for the properties: the polls made in the loop and the     *)
(* milliseconds slept in it.                                                *)

MaxRetries == 30       \* let retries = 30
PollInterval == 1000   \* setTimeout(resolve, 1000)

\* while (retries > 0)
LoopContinuesAboveOne(retries) == retries > 1

LoopContinues(retries) == retries > 0

\* the end of a call whose record was c: the record leaves `calls`
EnsureOllamaRunningEnds(c, threw, started, reached) ==
  /\ calls' = {d \in calls : d.op # "ensureOllamaRunning"}
  /\ last' = [op |-> "ensureOllamaRunning", threw |-> threw, started |-> started,
              reached |-> reached, polls |-> c.polls, waited |-> c.waited]

\* ensureOllamaRunning up to the first `await fetch(.../api/version)`
EnsureOllamaRunningBegin ==
  /\ calls' = calls \cup {[op |-> "ensureOllamaRunning", pc |-> "version",
                           retries |-> MaxRetries, polls |-> 0, waited |-> 0]}
  /\ UNCHANGED <<storage, vecAvailable, clock, nextMem, nextRel, last>>

\* the first fetch settles: resolved -> return; rejected -> startOllama up
\* to `await execAsync('which ollama')`
FirstCheck(c, reachable) ==
  /\ c \in calls /\ c.op = "ensureOllamaRunning" /\ c.pc = "version"
  /\ IF reachable
     THEN EnsureOllamaRunningEnds(c, FALSE, FALSE, TRUE)
     ELSE /\ calls' = (calls \ {c}) \cup {[c EXCEPT !.pc = "which"]}
          /\ UNCHANGED last
  /\ UNCHANGED <<storage, vecAvailable, clock, nextMem, nextRel>>

\* `which ollama` settles: rejected -> 'Ollama is not installed' is thrown
\* on; resolved -> spawn('ollama', ['serve']) and the 2000 ms timer
StartOllama(c, installed) ==
  /\ c \in calls /\ c.op = "ensureOllamaRunning" /\ c.pc = "which"
  /\ IF installed
     THEN /\ calls' = (calls \ {c}) \cup {[c EXCEPT !.pc = "serve"]}
          /\ UNCHANGED last
     ELSE EnsureOllamaRunningEnds(c, TRUE, FALSE, FALSE)
  /\ UNCHANGED <<storage, vecAvailable, clock, nextMem, nextRel>>

\* the 2000 ms timer fires: startOllama returns, retries = 30, the loop is
\* entered and the first poll sent
ServeStarted(c) ==
  /\ c \in calls /\ c.op = "ensureOllamaRunning" /\ c.pc = "serve"
  /\ calls' = (calls \ {c}) \cup {[c EXCEPT !.pc = "poll", !.retries = MaxRetries]}
  /\ UNCHANGED <<storage, vecAvailable, clock, nextMem, nextRel, last>>

\* after the loop: if (retries === 0) throw, else return
AfterLoop(c, reached) ==
  EnsureOllamaRunningEnds(c, c.retries = 0, TRUE, reached)

\* a poll settles: resolved -> break; rejected -> the 1000 ms timer
Poll(c, reachable) ==
  /\ c \in calls /\ c.op = "ensureOllamaRunning" /\ c.pc = "poll"
  /\ LET polled == [c EXCEPT !.polls = @ + 1] IN
     IF reachable
     THEN AfterLoop(polled, TRUE)
     ELSE /\ calls' = (calls \ {c}) \cup {[polled EXCEPT !.pc = "sleep"]}
          /\ UNCHANGED last
  /\ UNCHANGED <<storage, vecAvailable, clock, nextMem, nextRel>>

\* the 1000 ms timer fires: retries--, and the loop condition is tested
Sleep(c) ==
  /\ c \in calls /\ c.op = "ensureOllamaRunning" /\ c.pc = "sleep"
  /\ LET slept == [c EXCEPT !.retries = @ - 1, !.waited = @ + PollInterval] IN
     IF LoopContinues(slept.retries)
     THEN /\ calls' = (calls \ {c}) \cup {[slept EXCEPT !.pc = "poll"]}
          /\ UNCHANGED last
     ELSE AfterLoop(slept, FALSE)
  /\ UNCHANGED <<storage, vecAvailable, clock, nextMem, nextRel>>

-----------------------------------------------------------------------------
(* Environment *)

\* time passes
Tick ==
  /\ clock' = clock + 1
  /\ UNCHANGED <<storage, vecAvailable, nextMem, nextRel, calls, last>>

-----------------------------------------------------------------------------
(* Inputs *)

EmptyObject == [k \in {} |-> JsNull]

Contents == {<<"a", "b">>, <<"A", "b">>, <<"b">>}
Contents2 == {<<"a", "b">>, <<"b">>}
Queries == {<<"a">>, <<"_">>}
Metas == {EmptyObject, [type |-> JsFact], [n |-> JsNaN], [type |-> JsUndefined]}
Limits == {1, DefaultSearchLimit}
Thresholds == {0, DefaultThreshold}
Strengths == {300, DefaultStrength}
IdArgs == {randomUUID(n) : n \in 1..MaxMem} \cup {EmptyId}
RelIdArgs == {RelId(n) : n \in 1..MaxRel}

OptionOf(S) == {None} \cup {Some(v) : v \in S}

RelStrengths == {300, 900}
MinStrengths == {0, 900}
RelTypes == {"relates_to", "contains"}

\* queries after destructuring: an absent memoryId or relationshipType is
\* the empty string here (both are falsy), an absent direction is 'both', an
\* absent minStrength 0, an absent limit 100
RelQueries ==
  {q \in [memoryId : {EmptyId, randomUUID(1)},
          relationshipType : {"", "relates_to"},
          direction : {"from", "to", "both"},
          minStrength : MinStrengths,
          limit : {1, DefaultRelLimit}] :
     q.memoryId = EmptyId => q.direction = "both"}

-----------------------------------------------------------------------------
(* The CallTool request handler of createMCPServer.  A request names a tool *)
(* and carries an argument document; absent arguments are None.  The        *)
(* handler calls one service operation and answers with a result document,  *)
(* the object it hands to JSON.stringify.                                   *)

\* a default of a destructuring or a parameter, and `value || fallback` on
\* an absent value
Default(o, d) == IF IsSome(o) THEN Val(o) ELSE d

\* the service operation behind each tool
ToolName(op) ==
  CASE op = "addMemory" -> "add_memory"
    [] op = "getMemory" -> "get_memory"
    [] op = "updateMemory" -> "update_memory"
    [] op = "deleteMemory" -> "delete_memory"
    [] op = "searchMemories" -> "search_memories"
    [] op = "addRelationship" -> "add_relationship"
    [] op = "getRelationships" -> "get_relationships"
    [] op = "updateRelationship" -> "update_relationship"
    [] op = "deleteRelationship" -> "delete_relationship"
    [] op = "getConnectedMemories" -> "get_connected_memories"

\* what a failed call has thrown: generateEmbedding's Error, the SqliteError
\* of the foreign key constraint, or the Error of the default case
Thrown(outcome) ==
  CASE outcome.op = "callTool" ->
         [instanceofError |-> TRUE, message |-> "Unknown tool: " \o outcome.name]
    [] outcome.op = "addRelationship" ->
         [instanceofError |-> TRUE, message |-> "FOREIGN KEY constraint failed"]
    [] OTHER ->
         [instanceofError |-> TRUE, message |-> "Failed to generate embedding"]

\* String(error) of a thrown Error
String(error) == "Error: " \o error.message

\* variant: the catch block answers { error } without success
CallToolResultErrorOnly(name, outcome) ==
  IF outcome.threw
  THEN [error |-> IF Thrown(outcome).instanceofError
                  THEN Thrown(outcome).message ELSE String(Thrown(outcome)),
        isError |-> TRUE]
  ELSE [success |-> TRUE, isError |-> FALSE]

\* the result document of the handler, from the outcome of the service
\* operation it called: the return of the tool's case, or of the catch block
CallToolResult(name, outcome) ==
  IF outcome.threw
  THEN [success |-> FALSE,
        error |-> IF Thrown(outcome).instanceofError
                  THEN Thrown(outcome).message ELSE String(Thrown(outcome)),
        isError |-> TRUE]
  ELSE CASE name = "add_memory" -> [id |-> outcome.ret, success |-> TRUE]
         [] name = "get_memory" ->
              IF outcome.ret # None
              THEN [memory |-> Val(outcome.ret), success |-> TRUE]
              ELSE [success |-> FALSE, error |-> "Memory not found"]
         [] name = "update_memory" -> [success |-> outcome.ret]
         [] name = "delete_memory" -> [success |-> outcome.ret]
         [] name = "search_memories" -> [memories |-> outcome.ret, success |-> TRUE]
         [] name = "add_relationship" -> [id |-> outcome.ret, success |-> TRUE]
         [] name = "get_relationships" ->
              [relationships |-> outcome.ret, success |-> TRUE]
         [] name = "update_relationship" -> [success |-> outcome.ret]
         [] name = "delete_relationship" -> [success |-> outcome.ret]
         [] name = "get_connected_memories" ->
              [memories |-> outcome.ret, success |-> TRUE]

\* the default case: throw new Error(`Unknown tool: ${name}`), caught at once
UnknownTool(name) ==
  /\ last' = [op |-> "callTool", name |-> name, threw |-> TRUE]
  /\ UNCHANGED <<storage, vecAvailable, clock, nextMem, nextRel, calls>>

\* the handler up to the end of the service call, or to the await inside it
CallTool(name, args) ==
  CASE name = "add_memory" ->
         AddMemoryBegin(args.content, Default(args.metadata, EmptyObject))
    [] name = "get_memory" -> GetMemory(args.id)
    [] name = "update_memory" ->
         UpdateMemoryBegin(args.id, args.content, args.metadata)
    [] name = "delete_memory" -> DeleteMemory(args.id)
    [] name = "search_memories" ->
         SearchMemoriesBegin(args.query, Default(args.limit, DefaultSearchLimit),
                             Default(args.threshold, DefaultThreshold))
    [] name = "add_relationship" ->
         AddRelationship(args.fromMemoryId, args.toMemoryId, args.relationshipType,
                         Default(args.strength, DefaultStrength),
                         Default(args.metadata, EmptyObject))
    [] name = "get_relationships" ->
         GetRelationships([memoryId |-> Default(args.memoryId, EmptyId),
                           relationshipType |-> Default(args.relationshipType, ""),
                           direction |-> Default(args.direction, "both"),
                           minStrength |-> Default(args.minStrength, 0),
                           limit |-> Default(args.limit, DefaultRelLimit)])
    [] name = "update_relationship" ->
         UpdateRelationship(args.id, args.strength, args.metadata)
    [] name = "delete_relationship" -> DeleteRelationship(args.id)
    [] name = "get_connected_memories" ->
         GetConnectedMemories(args.memoryId, Default(args.maxDepth, DefaultMaxDepth))
    [] OTHER -> UnknownTool(name)

\* the result document of the request that was answered last
ToolResult ==
  CallToolResult(IF last.op = "callTool" THEN last.name ELSE ToolName(last.op), last)

-----------------------------------------------------------------------------
(* createMCPServer.  Its record in `calls` holds the await it is at (pc)    *)
(* and, for the properties, the initialization calls it has made (log);     *)
(* when it has returned, the record stays as the server whose request       *)
(* handlers are registered (pc = "serving").  ensureOllamaRunning and        *)
(* ensureModelExists are awaited calls that resolve or reject.              *)

\* variant: the request handlers are registered once the provider runs
OllamaSettlesThenServes(s, resolved) ==
  /\ s \in calls /\ s.op = "createMCPServer" /\ s.pc = "ensureOllamaRunning"
  /\ calls' = (calls \ {s}) \cup {[s EXCEPT !.pc = "serving"]}
  /\ last' = [op |-> "createMCPServer", threw |-> FALSE, log |-> s.log]
  /\ UNCHANGED <<storage, vecAvailable, clock, nextMem, nextRel>>

\* createMCPServer up to `await ensureOllamaRunning(config.memory?.ollama)`
CreateMCPServerBegin ==
  /\ calls' = calls \cup {[op |-> "createMCPServer", pc |-> "ensureOllamaRunning",
                           log |-> <<"ensureOllamaRunning">>]}
  /\ UNCHANGED <<storage, vecAvailable, clock, nextMem, nextRel, last>>

\* `throw error`: createMCPServer rejects, and main() exits the process
CreateMCPServerFails(s, log) ==
  /\ calls' = calls \ {s}
  /\ last' = [op |-> "createMCPServer", threw |-> TRUE, log |-> log]
  /\ UNCHANGED <<storage, vecAvailable, clock, nextMem, nextRel>>

\* ensureOllamaRunning settles: rejected -> throw; resolved -> up to
\* `await ensureModelExists(config.memory?.ollama)`
OllamaSettles(s, resolved) ==
  /\ s \in calls /\ s.op = "createMCPServer" /\ s.pc = "ensureOllamaRunning"
  /\ IF resolved
     THEN /\ calls' = (calls \ {s}) \cup
               {[s EXCEPT !.pc = "ensureModelExists",
                          !.log = Append(@, "ensureModelExists")]}
          /\ UNCHANGED <<storage, vecAvailable, clock, nextMem, nextRel, last>>
     ELSE CreateMCPServerFails(s, s.log)

\* ensureModelExists settles: rejected -> throw; resolved ->
\* initializeMemory(config.memory), which throws when the database cannot
\* be opened (opened = FALSE), and then new Server and setRequestHandler
ModelSettles(s, resolved, opened) ==
  /\ s \in calls /\ s.op = "createMCPServer" /\ s.pc = "ensureModelExists"
  /\ IF ~resolved
     THEN CreateMCPServerFails(s, s.log)
     ELSE IF ~opened
     THEN CreateMCPServerFails(s, Append(s.log, "initializeMemory"))
     ELSE /\ calls' = (calls \ {s}) \cup
               {[s EXCEPT !.pc = "serving", !.log = Append(@, "initializeMemory")]}
          /\ vecAvailable' \in BOOLEAN
          /\ last' = [op |-> "createMCPServer", threw |-> FALSE,
                      log |-> Append(s.log, "initializeMemory")]
          /\ UNCHANGED <<storage, clock, nextMem, nextRel>>

\* the request handlers are registered
Serving == \E s \in calls : s.op = "createMCPServer" /\ s.pc = "serving"

-----------------------------------------------------------------------------
(* The state after initializeMemory on a new database file: sqlite-vec may *)
(* have failed to load                                                     *)

Init ==
  /\ memories = <<>>
  /\ relationships = <<>>
  /\ embeddings = <<>>
  /\ vecAvailable \in BOOLEAN
  /\ clock = 0
  /\ nextMem = 1
  /\ nextRel = 1
  /\ calls = {}
  /\ last = [op |-> "initializeMemory", threw |-> FALSE]

\* initializeMemory when the process starts again on the same database
\* file: the tables persist, the suspended calls of the old process are
\* gone, and sqlite-vec loads or fails to load anew
InitializeMemory ==
  /\ vecAvailable' \in BOOLEAN
  /\ calls' = {}
  /\ last' = [op |-> "initializeMemory", threw |-> FALSE]
  /\ UNCHANGED <<storage, clock, nextMem, nextRel>>

MayStart == Cardinality(calls) < MaxCalls
MayAdd(max) == nextMem <= max /\ MayStart

\* The store as a graph: memories are created and deleted, their metadata
\* updated, relationships added, updated and deleted, across restarts
Next ==
  \/ MayAdd(MaxMem) /\ AddMemoryBegin(<<"a", "b">>, EmptyObject)
  \/ \E c \in calls, embedded \in BOOLEAN : AddMemoryResume(c, embedded)
  \/ \E id \in IdArgs : UpdateMemoryBegin(id, None, Some([type |-> JsFact]))
  \/ \E id \in IdArgs : DeleteMemory(id)
  \/ \E from \in IdArgs, to \in IdArgs :
       nextRel <= MaxRel /\ AddRelationship(from, to, "relates_to", DefaultStrength, EmptyObject)
  \/ \E id \in RelIdArgs, strength \in OptionOf(Strengths) :
       UpdateRelationship(id, strength, None)
  \/ \E id \in RelIdArgs : DeleteRelationship(id)
  \/ InitializeMemory

Spec == Init /\ [][Next]_vars

\* Memory CRUD with every kind of content and metadata, across restarts
NextMemory ==
  \/ \E content \in Contents2, metadata \in Metas :
       MayAdd(MaxCrud) /\ AddMemoryBegin(content, metadata)
  \/ \E c \in calls, embedded \in BOOLEAN : AddMemoryResume(c, embedded)
  \/ \E id \in IdArgs : GetMemory(id)
  \/ \E id \in IdArgs, content \in OptionOf(Contents2), metadata \in OptionOf(Metas) :
       (IsSome(content) => MayStart) /\ UpdateMemoryBegin(id, content, metadata)
  \/ \E c \in calls, embedded \in BOOLEAN : UpdateMemoryResume(c, embedded)
  \/ \E id \in IdArgs : DeleteMemory(id)
  \/ InitializeMemory

SpecMemory == Init /\ [][NextMemory]_vars

\* Search over memories of several contents created at several times
NextSearch ==
  \/ \E content \in Contents : MayAdd(MaxMem) /\ AddMemoryBegin(content, EmptyObject)
  \/ \E c \in calls, embedded \in BOOLEAN : AddMemoryResume(c, embedded)
  \/ \E id \in IdArgs : DeleteMemory(id)
  \/ \E query \in Queries, limit \in Limits, threshold \in Thresholds :
       MayStart /\ SearchMemoriesBegin(query, limit, threshold)
  \/ \E c \in calls, embedded \in BOOLEAN : SearchMemoriesResume(c, embedded)
  \/ InitializeMemory
  \/ clock < MaxClock /\ Tick

SpecSearch == Init /\ [][NextSearch]_vars

\* A hub: three memories, and relationships added from the first one, each
\* weaker than the one before
HubInit ==
  /\ memories = [id \in {randomUUID(1), randomUUID(2), randomUUID(3)} |->
                   [content |-> <<"a", "b">>,
                    metadata |-> JSONstringify(EmptyObject),
                    created_at |-> toISOString(0),
                    updated_at |-> toISOString(0)]]
  /\ relationships = <<>>
  /\ embeddings = <<>>
  /\ vecAvailable = FALSE
  /\ clock = 0
  /\ nextMem = 4
  /\ nextRel = 1
  /\ calls = {}
  /\ last = [op |-> "initializeMemory", threw |-> FALSE]

NextHub ==
  \/ \E to \in IF nextRel < HubRel THEN {randomUUID(2)}
               ELSE {randomUUID(2), randomUUID(3)} :
       /\ nextRel <= HubRel
       /\ AddRelationship(randomUUID(1), to, "relates_to",
                          DefaultStrength - nextRel, EmptyObject)
  \/ \E maxDepth \in {1, DefaultMaxDepth} :
       GetConnectedMemories(randomUUID(1), maxDepth)

SpecHub == HubInit /\ [][NextHub]_vars

\* Relationships between two existing memories: added (also towards a
\* memory that does not exist), updated, deleted and queried
RelInit ==
  /\ memories = [id \in {randomUUID(1), randomUUID(2)} |->
                   [content |-> <<"a", "b">>,
                    metadata |-> JSONstringify(EmptyObject),
                    created_at |-> toISOString(0),
                    updated_at |-> toISOString(0)]]
  /\ relationships = <<>>
  /\ embeddings = <<>>
  /\ vecAvailable = FALSE
  /\ clock = 0
  /\ nextMem = 3
  /\ nextRel = 1
  /\ calls = {}
  /\ last = [op |-> "initializeMemory", threw |-> FALSE]

NextRel ==
  \/ \E from \in {randomUUID(n) : n \in 1..3}, to \in {randomUUID(n) : n \in 1..3},
        type \in RelTypes, strength \in RelStrengths :
       nextRel <= MaxRel /\ AddRelationship(from, to, type, strength, EmptyObject)
  \/ \E id \in RelIdArgs, strength \in OptionOf(RelStrengths),
        metadata \in OptionOf({EmptyObject}) :
       UpdateRelationship(id, strength, metadata)
  \/ \E id \in RelIdArgs : DeleteRelationship(id)
  \/ \E q \in RelQueries : GetRelationships(q)
  \/ clock < MaxClock * TicksPerSec /\ Tick

SpecRel == RelInit /\ [][NextRel]_vars

\* Memories added and updated while time passes
NextTime ==
  \/ MayAdd(MaxCrud) /\ AddMemoryBegin(<<"a", "b">>, EmptyObject)
  \/ \E c \in calls, embedded \in BOOLEAN : AddMemoryResume(c, embedded)
  \/ \E id \in IdArgs, content \in OptionOf({<<"b">>}),
        metadata \in OptionOf({[type |-> JsFact]}) :
       (IsSome(content) => MayStart) /\ UpdateMemoryBegin(id, content, metadata)
  \/ \E c \in calls, embedded \in BOOLEAN : UpdateMemoryResume(c, embedded)
  \/ \E id \in IdArgs : GetMemory(id)
  \/ clock < MaxClock * TicksPerSec /\ Tick

SpecTime == Init /\ [][NextTime]_vars

\* The bootstrap of the provider, as often as the server is started; every
\* awaited fetch, exec and timer settles
BootStep ==
  \/ \E c \in calls, reachable \in BOOLEAN : FirstCheck(c, reachable)
  \/ \E c \in calls, installed \in BOOLEAN : StartOllama(c, installed)
  \/ \E c \in calls : ServeStarted(c)
  \/ \E c \in calls, reachable \in BOOLEAN : Poll(c, reachable)
  \/ \E c \in calls : Sleep(c)

NextBoot ==
  \/ calls = {} /\ EnsureOllamaRunningBegin
  \/ BootStep

SpecBoot == Init /\ [][NextBoot]_vars /\ WF_vars(BootStep)

\* The tools called through the request handler on a store of one memory;
\* the argument documents carry the required arguments of the tool's schema
ToolArgs(name) ==
  CASE name = "add_memory" ->
         [content : {<<"a", "b">>}, metadata : OptionOf({[type |-> JsFact]})]
    [] name \in {"get_memory", "delete_memory"} -> [id : IdArgs]
    [] name = "update_memory" ->
         [id : IdArgs, content : OptionOf({<<"b">>}),
          metadata : OptionOf({[type |-> JsFact]})]
    [] name = "search_memories" ->
         [query : {<<"a">>}, limit : OptionOf({1}), threshold : {None}]
    [] name = "add_relationship" ->
         [fromMemoryId : {randomUUID(1)}, toMemoryId : {randomUUID(1), randomUUID(2)},
          relationshipType : {"relates_to"}, strength : OptionOf({300}),
          metadata : {None}]
    [] name = "get_relationships" ->
         [memoryId : OptionOf({randomUUID(1)}), relationshipType : {None},
          direction : {None}, minStrength : OptionOf({900}), limit : {None}]
    [] name = "update_relationship" ->
         [id : {RelId(1)}, strength : OptionOf({900}), metadata : {None}]
    [] name = "delete_relationship" -> [id : {RelId(1)}]
    [] name = "get_connected_memories" ->
         [memoryId : {randomUUID(1)}, maxDepth : OptionOf({1})]
    [] OTHER -> {[id |-> randomUUID(1)]}

\* a request may arrive while another is suspended only if it does not
\* suspend itself: the model keeps MaxCalls calls suspended
MayCall(name, args) ==
  /\ name = "add_memory" => MayAdd(MaxCrud)
  /\ name = "search_memories" => MayStart
  /\ name = "update_memory" => (IsSome(args.content) => MayStart)
  /\ name = "add_relationship" => nextRel <= MaxRel

NextTools ==
  \/ \E args \in ToolArgs("add_memory") :
       MayCall("add_memory", args) /\ CallTool("add_memory", args)
  \/ \E args \in ToolArgs("get_memory") : CallTool("get_memory", args)
  \/ \E args \in ToolArgs("update_memory") :
       MayCall("update_memory", args) /\ CallTool("update_memory", args)
  \/ \E args \in ToolArgs("delete_memory") : CallTool("delete_memory", args)
  \/ \E args \in ToolArgs("search_memories") :
       MayCall("search_memories", args) /\ CallTool("search_memories", args)
  \/ \E args \in ToolArgs("add_relationship") :
       MayCall("add_relationship", args) /\ CallTool("add_relationship", args)
  \/ \E args \in ToolArgs("get_relationships") : CallTool("get_relationships", args)
  \/ \E args \in ToolArgs("update_relationship") :
       CallTool("update_relationship", args)
  \/ \E args \in ToolArgs("delete_relationship") :
       CallTool("delete_relationship", args)
  \/ \E args \in ToolArgs("get_connected_memories") :
       CallTool("get_connected_memories", args)
  \/ \E name \in {"list_memories", ""} :
       \E args \in ToolArgs(name) : CallTool(name, args)
  \/ \E c \in calls, embedded \in BOOLEAN : AddMemoryResume(c, embedded)
  \/ \E c \in calls, embedded \in BOOLEAN : UpdateMemoryResume(c, embedded)
  \/ \E c \in calls, embedded \in BOOLEAN : SearchMemoriesResume(c, embedded)

SpecTools == Init /\ [][NextTools]_vars

\* One process serving concurrent requests: addMemory and updateMemory
\* calls are suspended at their embedding request, up to MaxPending at a
\* time, and resumed in any order, with deletes and addRelationship calls
\* in between.  Two suspended updateMemory calls with the same arguments
\* are one record of `calls`: they write the same values.
MayPend == Cardinality(calls) < MaxPending

NextConcurrent ==
  \/ \E content \in Contents2 :
       nextMem <= MaxMem /\ MayPend /\ AddMemoryBegin(content, EmptyObject)
  \/ \E c \in calls, embedded \in BOOLEAN : AddMemoryResume(c, embedded)
  \/ \E id \in IdArgs, content \in Contents2 :
       MayPend /\ UpdateMemoryBegin(id, Some(content), None)
  \/ \E c \in calls, embedded \in BOOLEAN : UpdateMemoryResume(c, embedded)
  \/ \E id \in IdArgs : DeleteMemory(id)
  \/ \E from \in IdArgs, to \in IdArgs :
       nextRel <= MaxRel /\ AddRelationship(from, to, "relates_to", DefaultStrength, EmptyObject)

SpecConcurrent == Init /\ [][NextConcurrent]_vars

\* Traversals of every graph of up to MaxEdges relationships on three
\* memories, self-loops and parallel relationships included.  The call is
\* synchronous: nothing else runs between its iterations.
TraverseInit == HubInit

ConnectedStep ==
  \/ \E c \in calls : ConnectedIteration(c)
  \/ \E c \in calls : ConnectedReturn(c)

NextTraverse ==
  \/ \E from \in DOMAIN memories, to \in DOMAIN memories :
       /\ calls = {} /\ nextRel <= MaxEdges
       /\ AddRelationship(from, to, "relates_to", DefaultStrength, EmptyObject)
  \/ \E memoryId \in {randomUUID(1), randomUUID(2)}, maxDepth \in {1, DefaultMaxDepth, 3} :
       calls = {} /\ ConnectedBegin(memoryId, maxDepth)
  \/ ConnectedStep

SpecTraverse == TraverseInit /\ [][NextTraverse]_vars /\ WF_vars(ConnectedStep)

\* Two memories with their embedding rows and the relationships between
\* them: memories are added and updated in content and metadata,
\* relationships added, updated and deleted
NextFrame ==
  \/ MayAdd(MaxMem) /\ AddMemoryBegin(<<"a", "b">>, EmptyObject)
  \/ \E c \in calls, embedded \in BOOLEAN : AddMemoryResume(c, embedded)
  \/ \E id \in IdArgs, content \in OptionOf({<<"b">>}),
        metadata \in OptionOf({[type |-> JsFact]}) :
       (IsSome(content) => MayStart) /\ UpdateMemoryBegin(id, content, metadata)
  \/ \E c \in calls, embedded \in BOOLEAN : UpdateMemoryResume(c, embedded)
  \/ \E from \in IdArgs, to \in IdArgs :
       nextRel <= MaxRel /\ AddRelationship(from, to, "relates_to", 300, EmptyObject)
  \/ \E id \in RelIdArgs, strength \in OptionOf({900}),
        metadata \in OptionOf({EmptyObject}) :
       UpdateRelationship(id, strength, metadata)
  \/ \E id \in RelIdArgs : DeleteRelationship(id)

SpecFrame == Init /\ [][NextFrame]_vars

\* The server from the start of the process: createMCPServer, and then the
\* requests the registered handlers serve.  After a failed createMCPServer
\* the process exits and may be started again on the same database.
ServerInit ==
  /\ memories = <<>>
  /\ relationships = <<>>
  /\ embeddings = <<>>
  /\ vecAvailable = FALSE
  /\ clock = 0
  /\ nextMem = 1
  /\ nextRel = 1
  /\ calls = {}
  /\ last = [op |-> "main", threw |-> FALSE]

\* one request is suspended at a time next to the server's own record
MayServe == Serving /\ Cardinality(calls) = 1

NextServer ==
  \/ calls = {} /\ CreateMCPServerBegin
  \/ \E s \in calls, resolved \in BOOLEAN : OllamaSettles(s, resolved)
  \/ \E s \in calls, resolved \in BOOLEAN, opened \in BOOLEAN :
       ModelSettles(s, resolved, opened)
  \/ \E args \in ToolArgs("add_memory") :
       MayServe /\ nextMem <= MaxMem /\ CallTool("add_memory", args)
  \/ \E c \in calls, embedded \in BOOLEAN : AddMemoryResume(c, embedded)
  \/ \E name \in {"get_memory", "delete_memory", "list_memories"} :
       \E args \in ToolArgs(name) : Serving /\ CallTool(name, args)
  \/ \E args \in ToolArgs("update_memory") :
       MayServe /\ CallTool("update_memory", args)
  \/ \E c \in calls, embedded \in BOOLEAN : UpdateMemoryResume(c, embedded)

SpecServer == ServerInit /\ [][NextServer]_vars

\* Searches and traversals of a store whose memories are deleted, also while
\* sqlite-vec is not loaded, so that rows of the index outlive their memory
NextResults ==
  \/ \E content \in Contents2 : MayAdd(MaxMem) /\ AddMemoryBegin(content, EmptyObject)
  \/ \E c \in calls, embedded \in BOOLEAN : AddMemoryResume(c, embedded)
  \/ \E id \in IdArgs : DeleteMemory(id)
  \/ \E to \in IdArgs :
       /\ nextRel <= MaxRel
       /\ AddRelationship(randomUUID(1), to, "relates_to", DefaultStrength, EmptyObject)
  \/ \E query \in Queries, limit \in Limits :
       MayStart /\ SearchMemoriesBegin(query, limit, DefaultThreshold)
  \/ \E c \in calls, embedded \in BOOLEAN : SearchMemoriesResume(c, embedded)
  \/ \E memoryId \in IdArgs : GetConnectedMemories(memoryId, DefaultMaxDepth)
  \/ InitializeMemory

SpecResults == Init /\ [][NextResults]_vars

-----------------------------------------------------------------------------
(* Claims checked under Spec *)

\* C1: after deleteMemory(A) has returned true, every relationship that had
\* A as its from or its to endpoint is gone, and
\* getRelationships({memoryId: A}) returns the empty list.
C1_Cascade ==
  (last.op = "deleteMemory" /\ last.ret) =>
     /\ \A r \in last.linked : r \notin DOMAIN relationships
     /\ \A r \in DOMAIN relationships :
          /\ relationships[r].from_memory_id # last.id
          /\ relationships[r].to_memory_id # last.id
     /\ getRelationships(RelationshipQuery(last.id)) = {<<>>}

\* a deleteMemory that removed a memory some relationship pointed to
C1_Witness ==
  /\ last.op = "deleteMemory" /\ last.ret
  /\ \E r \in last.linked : TRUE

\* C2: in every reachable state both endpoints of every relationship are
\* ids of existing memories.
C2_ReferentialIntegrity ==
  \A r \in DOMAIN relationships :
     /\ relationships[r].from_memory_id \in DOMAIN memories
     /\ relationships[r].to_memory_id \in DOMAIN memories

\* a relationship is stored, and an addRelationship to a missing memory has
\* just been refused
C2_Witness ==
  /\ relationships # <<>>
  /\ last.op = "addRelationship" /\ last.threw

-----------------------------------------------------------------------------
(* Claims checked under SpecHub *)

Neighbours(S) ==
  {relationships[r].to_memory_id :
     r \in {x \in DOMAIN relationships : relationships[x].from_memory_id \in S}}
  \cup
  {relationships[r].from_memory_id :
     r \in {x \in DOMAIN relationships : relationships[x].to_memory_id \in S}}

\* the nodes within d hops of the nodes of S, over the undirected view
RECURSIVE Reach(_, _)
Reach(S, d) == IF d <= 0 THEN S ELSE Reach(S \cup Neighbours(S), d - 1)

\* C3: getConnectedMemories(startId, maxDepth) returns exactly the memory
\* records of the nodes at hop distance 1..maxDepth from startId over the
\* undirected view of the relationships, and never the start node.
C3_Traversal ==
  last.op = "getConnectedMemories" =>
     /\ {last.ret[i].id : i \in DOMAIN last.ret}
          = Reach({last.id}, last.maxDepth) \ {last.id}
     /\ \A i \in DOMAIN last.ret : last.ret[i] = RowToMemory(last.ret[i].id)

-----------------------------------------------------------------------------
(* Claims checked under SpecSearch: the fallback *)

\* the ids of a returned list of memories
RetIds(ret) == [i \in DOMAIN ret |-> ret[i].id]

\* the instant a memory was created
CreatedAt(id) == NewDate(memories[id].created_at)

\* ret holds, without repetition and as getMemory would return them, the
\* `limit` most recently created memories of M (all of M when it has fewer),
\* most recent first
NewestFirstOf(ret, M, limit) ==
  LET ids == RetIds(ret)
  IN /\ \A i \in DOMAIN ids : ids[i] \in M /\ ret[i] = RowToMemory(ids[i])
     /\ \A i, j \in DOMAIN ids :
          i < j => ids[i] # ids[j] /\ CreatedAt(ids[i]) >= CreatedAt(ids[j])
     /\ Len(ids) = Min(limit, Cardinality(M))
     /\ \A id \in M :
          (\A i \in DOMAIN ids : ids[i] # id) =>
             \A i \in DOMAIN ids : CreatedAt(ids[i]) >= CreatedAt(id)

\* the last call was a searchMemories whose vector path failed: the
\* provider threw, or the vector index is absent
FallbackTaken ==
  last.op = "searchMemories" /\ (last.providerFailed \/ ~vecAvailable)

\* C4 as stated: when the vector path fails, searchMemories returns all and
\* only the memories whose content contains the query as a case-sensitive
\* substring, most recently created first, truncated to limit.
C4_CaseSensitiveSubstring ==
  FallbackTaken =>
     NewestFirstOf(last.ret,
                   {id \in DOMAIN memories : Contains(memories[id].content, last.query)},
                   last.limit)

\* C4: when the vector path fails, searchMemories returns all and only the
\* memories whose content matches the pattern %query% under SQLite's LIKE
\* (ASCII letters compared case-insensitively, % and _ of the query acting
\* as wildcards), most recently created first, truncated to limit.
C4_Fallback ==
  FallbackTaken =>
     NewestFirstOf(last.ret,
                   {id \in DOMAIN memories :
                      Like(<<"%">> \o last.query \o <<"%">>, memories[id].content)},
                   last.limit)

\* a fallback search for "a" with limit 1 over two matching memories created
\* at different instants returned the newer one, which has "A" and no "a"
C4_Witness ==
  /\ FallbackTaken
  /\ last.query = <<"a">> /\ last.limit = 1
  /\ Len(last.ret) = 1 /\ last.ret[1].content = <<"A", "b">>
  /\ \E id \in DOMAIN memories :
       /\ memories[id].content = <<"a", "b">>
       /\ CreatedAt(id) < last.ret[1].created_at

-----------------------------------------------------------------------------
(* Claims checked under SpecMemory *)

\* what JSON keeps of a metadata object: members whose value is undefined
\* are lost, NaN comes back as null
JsonImage(M) ==
  [k \in {x \in DOMAIN M : M[x] # JsUndefined} |->
     IF M[k] = JsNaN THEN JsNull ELSE M[k]]

\* the last call was an addMemory that returned an id
Added == last.op = "addMemory" /\ ~last.threw

\* C5 as stated: for all content C and metadata M, getMemory(addMemory(C, M))
\* returns a memory whose content equals C and whose metadata equals M.
C5_RoundTripAnyMetadata ==
  Added =>
     /\ getMemory(last.ret) # None
     /\ Val(getMemory(last.ret)).content = last.content
     /\ Val(getMemory(last.ret)).metadata = last.metadata

\* C5: for all content C and metadata M, getMemory(addMemory(C, M)) returns a
\* memory whose content equals C and whose metadata equals
\* JSON.parse(JSON.stringify(M)): M without its undefined members and with
\* null for NaN; it equals M when M has neither.
C5_RoundTrip ==
  Added =>
     /\ getMemory(last.ret) # None
     /\ Val(getMemory(last.ret)).id = last.ret
     /\ Val(getMemory(last.ret)).content = last.content
     /\ Val(getMemory(last.ret)).metadata = JsonImage(last.metadata)
     /\ (\A k \in DOMAIN last.metadata : last.metadata[k] \notin {JsUndefined, JsNaN})
          => Val(getMemory(last.ret)).metadata = last.metadata

\* a memory was added with metadata {type: 'fact'} and reads back with it
C5_Witness ==
  /\ Added
  /\ last.metadata = [type |-> JsFact]
  /\ Val(getMemory(last.ret)).metadata = [type |-> JsFact]

\* a call on an id that names no memory returns the not-found result and
\* does not raise; keeps: what of the stored state the call must leave alone
NotFoundCalls(keeps) ==
  \A id \in IdArgs :
     id \notin DOMAIN memories =>
        /\ GetMemory(id) =>
             last'.ret = None /\ ~last'.threw /\ UNCHANGED keeps
        /\ DeleteMemory(id) =>
             last'.ret = FALSE /\ ~last'.threw /\ UNCHANGED keeps
        /\ \A content \in OptionOf(Contents2), metadata \in OptionOf(Metas) :
             UpdateMemoryBegin(id, content, metadata) =>
                /\ last'.op = "updateMemory" /\ last'.id = id
                /\ last'.ret = FALSE /\ ~last'.threw
                /\ UNCHANGED keeps /\ UNCHANGED calls

\* C6 as stated: for an id that names no memory getMemory returns null,
\* deleteMemory false and updateMemory false whatever content and metadata
\* are given or omitted; none raises or changes the stored state.
C6_NotFoundNoChange == [][NotFoundCalls(storage)]_vars

\* C6: for an id that names no memory getMemory returns null, deleteMemory
\* false and updateMemory false whatever content and metadata are given or
\* omitted; none raises, none changes a memory or a relationship, and only
\* deleteMemory may change the embedding rows, by deleting the row of that
\* id which a failed earlier delete left behind.
C6_NotFound ==
  [][/\ NotFoundCalls(<<memories, relationships>>)
     /\ \A id \in IdArgs :
          id \notin DOMAIN memories =>
             /\ GetMemory(id) => UNCHANGED embeddings
             /\ DeleteMemory(id) =>
                  embeddings' \in {embeddings, Remove(embeddings, {id})}
             /\ \A content \in OptionOf(Contents2), metadata \in OptionOf(Metas) :
                  UpdateMemoryBegin(id, content, metadata) => UNCHANGED embeddings]_vars

\* a deleteMemory of an id that names no memory returned false and removed
\* the embedding row left under that id
C6_Witness ==
  /\ last.op = "deleteMemory" /\ ~last.ret /\ ~last.existed
  /\ last.hadEmbedding /\ last.id \notin DOMAIN embeddings

\* C7: when the embedding provider fails during addMemory the call rejects
\* and the stored state is as before the call: no memory row and no
\* embedding row of the new id exists.
C7_ProviderFailure ==
  [][\A c \in calls :
       AddMemoryResume(c, FALSE) =>
          /\ last'.op = "addMemory" /\ last'.threw
          /\ UNCHANGED storage
          /\ c.id \notin DOMAIN memories'
          /\ c.id \notin DOMAIN embeddings']_vars

\* an addMemory has just failed on the provider
C7_Witness ==
  /\ last.op = "addMemory" /\ last.providerFailed /\ last.threw
  /\ last.id \notin DOMAIN memories

\* C8: when the provider returns an embedding, addMemory persists the memory
\* row and returns its id whether or not the embedding row could be
\* written; and for a memory without embedding row getMemory returns it,
\* updateMemory (the provider answering) returns true and deleteMemory
\* returns true and removes it.
C8_SoftFail ==
  /\ (last.op = "addMemory" /\ ~last.providerFailed) =>
        /\ ~last.threw /\ last.ret = last.id
        /\ last.id \in DOMAIN memories
        /\ ~vecAvailable => last.id \notin DOMAIN embeddings
  /\ (last.op = "getMemory" /\ last.id \in DOMAIN memories
        /\ last.id \notin DOMAIN embeddings) =>
        /\ ~last.threw /\ last.ret # None /\ Val(last.ret).id = last.id
  /\ (last.op = "updateMemory" /\ last.existed /\ ~last.hadEmbedding
        /\ ~last.providerFailed) =>
        /\ ~last.threw /\ last.ret
        /\ IsSome(last.content) => memories[last.id].content = Val(last.content)
        /\ last.id \notin DOMAIN embeddings
  /\ (last.op = "deleteMemory" /\ last.existed /\ ~last.hadEmbedding) =>
        /\ ~last.threw /\ last.ret
        /\ last.id \notin DOMAIN memories

\* without vector index, a memory that has no embedding row has just had
\* its content updated
C8_Witness ==
  /\ ~vecAvailable
  /\ last.op = "updateMemory" /\ last.ret /\ IsSome(last.content)
  /\ last.id \in DOMAIN memories /\ last.id \notin DOMAIN embeddings

-----------------------------------------------------------------------------
(* Claims checked under SpecSearch: the vector path *)

\* C9: a searchMemories call never fails, and its result is the result of
\* one statement: of the vector statement, even when that is empty, when the
\* provider answered and the vector index is present, else of the LIKE
\* statement.
C9_OneStrategy ==
  last.op = "searchMemories" =>
     /\ ~last.threw
     /\ \A i \in DOMAIN last.ret : last.ret[i] = RowToMemory(last.ret[i].id)
     /\ RetIds(last.ret) \in
          IF ~last.providerFailed /\ vecAvailable
          THEN VectorSearch(last.query, last.limit, last.threshold)
          ELSE TextSearch(last.query, last.limit)

\* the vector path ran and returned nothing although the LIKE statement
\* would have returned a memory
C9_Witness ==
  /\ last.op = "searchMemories" /\ ~last.providerFailed /\ vecAvailable
  /\ last.ret = <<>>
  /\ <<>> \notin TextSearch(last.query, last.limit)

\* C10: when the vector path succeeds, searchMemories returns only memories
\* that have an embedding row whose cosine distance to the query embedding
\* is below 1 - threshold, in ascending order of distance, at most limit of
\* them, and omits a qualifying memory only when limit memories at most as
\* far are returned.
C10_VectorResult ==
  (last.op = "searchMemories" /\ ~last.providerFailed /\ vecAvailable) =>
     LET ids == RetIds(last.ret)
         dist(id) == vec_distance_cosine(embeddings[id], Embed(last.query))
         qualifies(id) == /\ id \in DOMAIN memories
                          /\ id \in DOMAIN embeddings
                          /\ dist(id) < 1000 - last.threshold
     IN /\ \A i \in DOMAIN ids : qualifies(ids[i])
        /\ \A i, j \in DOMAIN ids :
             i < j => ids[i] # ids[j] /\ dist(ids[i]) <= dist(ids[j])
        /\ Len(ids) <= last.limit
        /\ \A id \in DOMAIN memories :
             (qualifies(id) /\ \A i \in DOMAIN ids : ids[i] # id) =>
                /\ Len(ids) = last.limit
                /\ \A i \in DOMAIN ids : dist(ids[i]) <= dist(id)

\* a vector search with limit 1 returned the nearer of two qualifying
\* memories
C10_Witness ==
  /\ last.op = "searchMemories" /\ ~last.providerFailed /\ vecAvailable
  /\ last.limit = 1 /\ Len(last.ret) = 1
  /\ \E id \in DOMAIN memories \cap DOMAIN embeddings :
       /\ id # last.ret[1].id
       /\ vec_distance_cosine(embeddings[id], Embed(last.query)) < 1000 - last.threshold
       /\ vec_distance_cosine(embeddings[id], Embed(last.query))
            > vec_distance_cosine(embeddings[last.ret[1].id], Embed(last.query))

-----------------------------------------------------------------------------
(* Claims checked under SpecRel *)

\* the relationships that satisfy every filter field of q that is given
Satisfying(q) ==
  {r \in DOMAIN relationships :
     /\ relationships[r].strength >= q.minStrength
     /\ q.relationshipType # "" =>
          relationships[r].relationship_type = q.relationshipType
     /\ (q.memoryId # EmptyId /\ q.direction = "from") =>
          relationships[r].from_memory_id = q.memoryId
     /\ (q.memoryId # EmptyId /\ q.direction = "to") =>
          relationships[r].to_memory_id = q.memoryId
     /\ (q.memoryId # EmptyId /\ q.direction = "both") =>
          \/ relationships[r].from_memory_id = q.memoryId
          \/ relationships[r].to_memory_id = q.memoryId}

\* C11: getRelationships(filter) returns, each once and as stored,
\* relationships that satisfy every given filter field (strength >=
\* minStrength, inclusive, default 0; relationship_type; memoryId by
\* direction, default both), and it returns all of them, or limit (default
\* 100) of them when there are more.
C11_Filter ==
  last.op = "getRelationships" =>
     LET ids == RetIds(last.ret)
         M == Satisfying(last.query)
     IN /\ \A i \in DOMAIN ids :
             ids[i] \in M /\ last.ret[i] = RowToRelationship(ids[i])
        /\ \A i, j \in DOMAIN ids : i < j => ids[i] # ids[j]
        /\ Len(ids) = Min(last.query.limit, Cardinality(M))

\* with edges of strength 0.3 and 0.9 from m1, a query for m1 with
\* minStrength 0.9 returned exactly the 0.9 edge
C11_Witness ==
  /\ last.op = "getRelationships"
  /\ last.query.memoryId = randomUUID(1) /\ last.query.minStrength = 900
  /\ last.query.limit = DefaultRelLimit
  /\ Len(last.ret) = 1 /\ last.ret[1].strength = 900
  /\ \E r \in DOMAIN relationships :
       /\ relationships[r].from_memory_id = randomUUID(1)
       /\ relationships[r].strength = 300

\* row a comes no later than row b in ORDER BY strength DESC, created_at DESC
NoLaterThan(a, b) ==
  \/ a.strength > b.strength
  \/ a.strength = b.strength /\ a.created_at >= b.created_at

\* C12: the list getRelationships returns is non-increasing in strength and,
\* among equal strengths, non-increasing in created_at; a matching
\* relationship that is not returned comes no earlier in that order than
\* every returned one.
C12_Ordering ==
  last.op = "getRelationships" =>
     /\ \A i, j \in DOMAIN last.ret :
          i < j => NoLaterThan(last.ret[i], last.ret[j])
     /\ \A r \in Satisfying(last.query) :
          (\A i \in DOMAIN last.ret : last.ret[i].id # r) =>
             \A i \in DOMAIN last.ret :
                NoLaterThan(last.ret[i], RowToRelationship(r))

\* a query with limit 1 returned the later created of two matching
\* relationships of equal strength
C12_Witness ==
  /\ last.op = "getRelationships" /\ last.query.limit = 1
  /\ Len(last.ret) = 1
  /\ \E r \in Satisfying(last.query) :
       /\ relationships[r].strength = last.ret[1].strength
       /\ NewDate(relationships[r].created_at) < last.ret[1].created_at

\* C13 as stated: addRelationship always stores a new relationship and
\* returns its id, also when from or to is not the id of an existing memory.
C13_AlwaysSucceeds ==
  last.op = "addRelationship" =>
     /\ ~last.threw
     /\ last.ret \in DOMAIN relationships

\* C13: addRelationship stores a new relationship and returns its new id
\* when from and to are ids of existing memories; when one of them is not,
\* it throws (the foreign key constraint fails) and no relationship between
\* from and to is stored.
C13_AddRelationship ==
  last.op = "addRelationship" =>
     /\ last.threw <=> ~(last.from \in DOMAIN memories /\ last.to \in DOMAIN memories)
     /\ ~last.threw =>
          /\ last.ret \in DOMAIN relationships
          /\ relationships[last.ret].from_memory_id = last.from
          /\ relationships[last.ret].to_memory_id = last.to
          /\ \A n \in 1..(nextRel - 2) : last.ret # RelId(n)
     /\ last.threw =>
          \A r \in DOMAIN relationships :
             ~(/\ relationships[r].from_memory_id = last.from
               /\ relationships[r].to_memory_id = last.to)

\* an addRelationship from an existing memory to an id that names no memory
\* has thrown
C13_Witness ==
  /\ last.op = "addRelationship" /\ last.threw
  /\ last.from \in DOMAIN memories /\ last.to \notin DOMAIN memories

-----------------------------------------------------------------------------
(* Claims checked under SpecMemory: updateMemory *)

\* C14: updateMemory(id) with neither content nor metadata, on an existing
\* memory, returns true, leaves the memory row and the embedding row as
\* they are and does not call the embedding provider.
C14_NoFieldUpdate ==
  [][\A id \in DOMAIN memories :
       UpdateMemoryBegin(id, None, None) =>
          /\ last'.op = "updateMemory" /\ last'.id = id
          /\ last'.ret /\ ~last'.threw
          /\ UNCHANGED storage
          /\ UNCHANGED calls]_vars

\* an updateMemory without fields on a memory that has an embedding row has
\* returned true
C14_Witness ==
  /\ last.op = "updateMemory" /\ last.ret
  /\ last.content = None /\ last.metadata = None
  /\ last.id \in DOMAIN memories /\ last.id \in DOMAIN embeddings

\* a metadata-only updateMemory on an existing memory returns true, makes
\* the metadata read back as Stored(M2) and leaves content and embedding
\* rows alone; a content-only updateMemory that finds the memory still
\* there sets the content and leaves the metadata alone
UpdatesOneField(Stored(_)) ==
  \A id \in DOMAIN memories :
     /\ \A M2 \in Metas :
          UpdateMemoryBegin(id, None, Some(M2)) =>
             /\ last'.op = "updateMemory" /\ last'.ret /\ ~last'.threw
             /\ id \in DOMAIN memories'
             /\ JSONparse(memories'[id].metadata) = Stored(M2)
             /\ memories'[id].content = memories[id].content
             /\ UNCHANGED embeddings
     /\ \A c \in calls :
          (/\ c.op = "updateMemory" /\ c.id = id /\ c.metadata = None
           /\ UpdateMemoryResume(c, TRUE)) =>
             /\ last'.op = "updateMemory" /\ last'.ret /\ ~last'.threw
             /\ id \in DOMAIN memories'
             /\ memories'[id].content = Val(c.content)
             /\ memories'[id].metadata = memories[id].metadata

\* C15 as stated: after updateMemory(id, undefined, M2) on an existing
\* memory getMemory(id).metadata equals M2, nothing of the previous metadata
\* retained, content and embedding row unchanged; updateMemory(id, C2)
\* changes the content to C2 and leaves the metadata unchanged.
C15_MetadataEqualsGiven == [][UpdatesOneField(LAMBDA M : M)]_vars

\* C15: after updateMemory(id, undefined, M2) on an existing memory
\* getMemory(id).metadata equals JSON.parse(JSON.stringify(M2)), which is M2
\* when M2 is JSON-representable, nothing of the previous metadata retained,
\* content and embedding row unchanged; updateMemory(id, C2) changes the
\* content to C2 and leaves the metadata unchanged.
C15_Wholesale == [][UpdatesOneField(JsonImage)]_vars

\* a metadata-only updateMemory with {type: 'fact'} has returned true on a
\* memory that has an embedding row, and the metadata reads back as given
C15_Witness ==
  /\ last.op = "updateMemory" /\ last.ret
  /\ last.content = None /\ last.metadata = Some([type |-> JsFact])
  /\ last.id \in DOMAIN embeddings
  /\ Val(getMemory(last.id)).metadata = [type |-> JsFact]

\* C16: when the embedding provider fails during updateMemory(id, content,
\* ...) the call rejects and every memory row and embedding row is as before
\* the call.
C16_UpdateProviderFailure ==
  [][\A c \in calls :
       (c.op = "updateMemory" /\ UpdateMemoryResume(c, FALSE)) =>
          /\ last'.op = "updateMemory" /\ last'.id = c.id
          /\ last'.threw /\ ~last'.ret
          /\ UNCHANGED storage]_vars

\* an updateMemory with content and metadata on an existing memory with
\* embedding row has just failed on the provider
C16_Witness ==
  /\ last.op = "updateMemory" /\ last.providerFailed /\ last.threw
  /\ IsSome(last.content) /\ IsSome(last.metadata)
  /\ last.id \in DOMAIN memories /\ last.id \in DOMAIN embeddings
  /\ memories[last.id].content # Val(last.content)

-----------------------------------------------------------------------------
(* Claims checked under SpecTime *)

\* C17: for every memory updated_at >= created_at, created_at never
\* changes, and no step (so no updateMemory) leaves updated_at earlier than
\* it was.
C17_Monotonic ==
  /\ [](\A id \in DOMAIN memories :
          RowToMemory(id).updated_at >= RowToMemory(id).created_at)
  /\ [][\A id \in DOMAIN memories \cap DOMAIN memories' :
          /\ NewDate(memories'[id].created_at) = NewDate(memories[id].created_at)
          /\ NewDate(memories'[id].updated_at) >= NewDate(memories[id].updated_at)]_vars

-----------------------------------------------------------------------------
(* Claims checked under Spec: deletes *)

\* deleteMemory(id) returns true exactly when a memory row of that id
\* existed; the row is gone afterwards (getMemory returns null) and a
\* deleteMemory(id) that follows a deleteMemory(id) returns false.
\* deleteRelationship(id) returns true exactly when a relationship row of
\* that id existed, and the row is gone afterwards.
DeletesTheRow ==
  /\ \A id \in IdArgs :
       DeleteMemory(id) =>
          /\ last'.op = "deleteMemory" /\ ~last'.threw
          /\ last'.ret <=> id \in DOMAIN memories
          /\ id \notin DOMAIN memories'
          /\ (last.op = "deleteMemory" /\ last.id = id) => ~last'.ret
  /\ \A id \in RelIdArgs :
       DeleteRelationship(id) =>
          /\ last'.op = "deleteRelationship" /\ ~last'.threw
          /\ last'.ret <=> id \in DOMAIN relationships
          /\ id \notin DOMAIN relationships'

\* C18 as stated: the delete results above, and after deleteMemory(id) the
\* embedding row for id is gone.
C18_EmbeddingGone ==
  [][/\ DeletesTheRow
     /\ \A id \in IdArgs :
          DeleteMemory(id) => id \notin DOMAIN embeddings']_vars

\* C18: the delete results above, and after deleteMemory(id) the embedding
\* row for id is gone when the vector index is usable; when it is not
\* (sqlite-vec failed to load in this process) the embedding rows are left
\* as they are, so a row written by an earlier process stays.
C18_Delete ==
  [][/\ DeletesTheRow
     /\ \A id \in IdArgs :
          DeleteMemory(id) =>
             /\ vecAvailable => embeddings' = Remove(embeddings, {id})
             /\ ~vecAvailable => UNCHANGED embeddings]_vars

\* a deleteMemory has removed a memory together with its embedding row and
\* the relationships it had
C18_Witness ==
  /\ last.op = "deleteMemory" /\ last.ret /\ last.hadEmbedding
  /\ last.linked # {}
  /\ last.id \notin DOMAIN memories /\ last.id \notin DOMAIN embeddings

-----------------------------------------------------------------------------
(* Claims checked under SpecRel: updateRelationship *)

\* C19: updateRelationship(id, strength?, metadata?) on an id that names no
\* relationship returns false, does not throw and changes nothing, whichever
\* of strength and metadata are given.
C19_MissingRelationship ==
  [][\A id \in RelIdArgs :
       id \notin DOMAIN relationships =>
          \A strength \in OptionOf(RelStrengths), metadata \in OptionOf({EmptyObject}) :
             UpdateRelationship(id, strength, metadata) =>
                /\ last'.op = "updateRelationship" /\ last'.id = id
                /\ ~last'.ret /\ ~last'.threw
                /\ UNCHANGED storage]_vars

-----------------------------------------------------------------------------
(* Claims checked under SpecBoot *)

\* a call in the loop has made at most 30 polls, all of which failed, and
\* has slept 1000 ms after each of them but the one it is sleeping after
InTheLoop(c) ==
  /\ c.pc = "poll" =>
       /\ c.polls < MaxRetries /\ c.retries = MaxRetries - c.polls
       /\ c.waited = PollInterval * c.polls
  /\ c.pc = "sleep" =>
       /\ c.polls >= 1 /\ c.polls <= MaxRetries
       /\ c.waited = PollInterval * (c.polls - 1)

\* a call that started the provider returned exactly when a poll succeeded,
\* which was one of the first 30, made 1000 ms after the one before; it
\* threw exactly when 30 polls had failed
LoopOutcome ==
  (last.op = "ensureOllamaRunning" /\ last.started) =>
     /\ ~last.threw <=> last.reached
     /\ last.reached =>
          /\ last.polls >= 1 /\ last.polls <= MaxRetries
          /\ last.waited = PollInterval * (last.polls - 1)
     /\ last.threw =>
          /\ last.polls = MaxRetries
          /\ last.waited = PollInterval * MaxRetries

\* C20: when the first check finds the provider unreachable and it is
\* started, ensureOllamaRunning polls at 1-second intervals, at most 30
\* times; it returns as soon as a poll succeeds, the 30th included, throws
\* after 30 failed polls, and every call ends.
C20_BootstrapRetry ==
  /\ [](\A c \in calls : InTheLoop(c))
  /\ []LoopOutcome
  /\ (calls # {}) ~> (calls = {})

\* the 30th poll succeeded and the call returned
C20_Witness ==
  /\ last.op = "ensureOllamaRunning" /\ last.started
  /\ ~last.threw /\ last.polls = MaxRetries

-----------------------------------------------------------------------------
(* Claims checked under SpecTools *)

\* C21: the result document of every tool call, for each of the ten tools
\* and for an unknown tool name, has a boolean `success`; when the service
\* operation threw, and when the tool name is unknown, success is false and
\* the document has an error message string.
C21_Dispatch ==
  last.op # "initializeMemory" =>
     /\ "success" \in DOMAIN ToolResult
     /\ ToolResult.success \in BOOLEAN
     /\ (last.threw \/ last.op = "callTool") =>
          /\ ~ToolResult.success
          /\ "error" \in DOMAIN ToolResult
          /\ ToolResult.error \in STRING

\* an add_relationship call towards a memory that does not exist was
\* answered with success: false and the message of the constraint
C21_Witness ==
  /\ last.op = "addRelationship" /\ last.threw
  /\ ToolResult = [success |-> FALSE, error |-> "FOREIGN KEY constraint failed",
                   isError |-> TRUE]

-----------------------------------------------------------------------------
(* Claims checked under SpecConcurrent *)

\* the ids of the addMemory calls that are suspended
PendingIds == {c.id : c \in {d \in calls : d.op = "addMemory"}}

\* an addMemory draws an id that was not drawn before; when it resumes it
\* returns that id, inserts a row no row had the id of and leaves the other
\* rows alone.  addRelationship returns an id that was not drawn before,
\* inserts its row and leaves the other rows alone.
AddsAreFresh ==
  /\ \A content \in Contents2 :
       AddMemoryBegin(content, EmptyObject) =>
          \E c \in calls' \ calls :
             /\ c.op = "addMemory"
             /\ c.id \notin DOMAIN memories \cup PendingIds
             /\ \A n \in 1..(nextMem - 1) : c.id # randomUUID(n)
  /\ \A c \in calls :
       (c.op = "addMemory" /\ AddMemoryResume(c, TRUE)) =>
          /\ last'.ret = c.id /\ ~last'.threw
          /\ c.id \notin DOMAIN memories /\ c.id \in DOMAIN memories'
          /\ \A id \in DOMAIN memories : memories'[id] = memories[id]
  /\ \A from \in IdArgs, to \in IdArgs :
       (/\ AddRelationship(from, to, "relates_to", DefaultStrength, EmptyObject)
        /\ ~last'.threw) =>
          /\ last'.ret \notin DOMAIN relationships
          /\ last'.ret \in DOMAIN relationships'
          /\ \A n \in 1..(nextRel - 1) : last'.ret # RelId(n)
          /\ \A r \in DOMAIN relationships : relationships'[r] = relationships[r]

\* C22: every id returned by addMemory differs from the id of every other
\* memory ever created, every id returned by addRelationship from the id of
\* every other relationship, also when the calls interleave, and no add
\* overwrites a row.
C22_UniqueIds ==
  /\ [](\A c \in calls, d \in calls :
          (c.op = "addMemory" /\ d.op = "addMemory" /\ c # d) => c.id # d.id)
  /\ [](PendingIds \cap DOMAIN memories = {})
  /\ [][AddsAreFresh]_vars

\* two addMemory calls were suspended together and the one that started
\* first resumed last: both rows are stored, under different ids
C22_Witness ==
  /\ last.op = "addMemory" /\ last.ret = randomUUID(1)
  /\ randomUUID(2) \in DOMAIN memories /\ randomUUID(1) \in DOMAIN memories
  /\ memories[randomUUID(1)].content # memories[randomUUID(2)].content
  /\ relationships # <<>>

-----------------------------------------------------------------------------
(* Claims checked under SpecTraverse *)

\* no id occurs twice in the sequence
NoRepeat(s) == \A i, j \in DOMAIN s : i # j => s[i] # s[j]

\* the bookkeeping of a traversal: the ids pushed on the queue are the
\* visited ones, each pushed once; relationships were fetched once per node
\* at most, only for nodes that were pushed and lie above maxDepth
Bookkeeping(t) ==
  /\ NoRepeat(t.enqueued)
  /\ t.visited = {t.enqueued[i] : i \in DOMAIN t.enqueued}
  /\ NoRepeat([i \in DOMAIN t.fetched |-> t.fetched[i].id])
  /\ \A i \in DOMAIN t.fetched :
       t.fetched[i].id \in t.visited /\ t.fetched[i].depth < t.maxDepth
  /\ Len(t.fetched) <= Cardinality(t.visited)

\* C23: getConnectedMemories ends on every relationship graph, with cycles,
\* self-loops and parallel relationships: every node is marked visited and
\* enqueued once at most, relationships are fetched at most once per
\* explored node, and never for a node popped at depth >= maxDepth.
C23_Termination ==
  /\ [](\A c \in calls :
          c.op = "getConnectedMemories" =>
             /\ Bookkeeping(c)
             /\ \A i \in DOMAIN c.queue : c.queue[i].id \in c.visited)
  /\ [](last.op = "getConnectedMemories" =>
          /\ Bookkeeping(last)
          /\ last.ret \in getConnectedMemories(last.id, last.maxDepth))
  /\ (calls # {}) ~> (calls = {})

\* a traversal to depth 3 has ended on a graph with a self-loop on its start
\* node and two relationships between the same two nodes
C23_Witness ==
  /\ last.op = "getConnectedMemories" /\ last.maxDepth = 3
  /\ Len(last.ret) >= 1 /\ Len(last.fetched) >= 2
  /\ \E r \in DOMAIN relationships :
       /\ relationships[r].from_memory_id = last.id
       /\ relationships[r].to_memory_id = last.id
  /\ \E r, s \in DOMAIN relationships :
       /\ r # s
       /\ relationships[r].from_memory_id = relationships[s].to_memory_id
       /\ relationships[r].to_memory_id = relationships[s].from_memory_id
       /\ relationships[r].from_memory_id # relationships[r].to_memory_id

-----------------------------------------------------------------------------
(* Claims checked under Spec: the embedding rows *)

\* the embedding rows whose id is the id of no memory
Orphans == DOMAIN embeddings \ DOMAIN memories

\* C24 as stated: in every reachable state every embedding row has the id of
\* an existing memory (and a memory has one row at most), and after
\* deleteMemory(id) no embedding row of id remains.
C24_Lifecycle ==
  /\ Orphans = {}
  /\ last.op = "deleteMemory" => last.id \notin DOMAIN embeddings

\* C24: a memory has one embedding row at most, and a row is created only
\* under the id of a memory that exists; deleteMemory(id) leaves no row of
\* id when the vector index is usable in the running process; a row without
\* memory arises only from a deleteMemory that ran while the index was not
\* usable (sqlite-vec failed to load), and stays until a deleteMemory of its
\* id runs with a usable index.
C24_BestEffortLifecycle ==
  [][/\ DOMAIN embeddings' \ DOMAIN embeddings \subseteq DOMAIN memories'
     /\ \A id \in IdArgs :
          (DeleteMemory(id) /\ vecAvailable) => id \notin DOMAIN embeddings'
     /\ \A id \in Orphans' \ Orphans :
          ~vecAvailable /\ DeleteMemory(id) /\ last'.ret
     /\ \A id \in Orphans \ Orphans' :
          vecAvailable /\ DeleteMemory(id) /\ ~last'.ret]_vars

\* a deleteMemory that ran without usable vector index has removed a memory
\* and left its embedding row
C24_Witness ==
  /\ last.op = "deleteMemory" /\ last.ret /\ ~vecAvailable
  /\ last.id \in Orphans

-----------------------------------------------------------------------------
(* Claims checked under SpecMemory: the embedding row of an updated memory *)

\* C25: after updateMemory(id, content) has returned true while the vector
\* index is usable, the embedding row of id holds the provider's embedding
\* of the new content, whether or not the memory had a row before.
C25_EmbeddingFollowsContent ==
  (/\ last.op = "updateMemory" /\ last.ret /\ ~last.threw
   /\ IsSome(last.content) /\ vecAvailable) =>
     /\ last.id \in DOMAIN embeddings
     /\ embeddings[last.id] = Embed(Val(last.content))

-----------------------------------------------------------------------------
(* Claims checked under SpecFrame *)

\* C26: the row of a memory that stays (so its updated_at) changes only by
\* an updateMemory of that memory that is given content or metadata;
\* addRelationship, updateRelationship, deleteRelationship and the writes of
\* embedding rows leave every memory row as it is; updateRelationship
\* changes at most the strength and the metadata of the one relationship:
\* its id, endpoints, type and created_at, and every other relationship,
\* stay.
C26_Frame ==
  [][/\ \A id \in DOMAIN memories \cap DOMAIN memories' :
          memories'[id] # memories[id] =>
             /\ last'.op = "updateMemory" /\ last'.id = id /\ last'.ret
             /\ IsSome(last'.content) \/ IsSome(last'.metadata)
             /\ \/ UpdateMemoryBegin(id, last'.content, last'.metadata)
                \/ \E c \in calls : c.id = id /\ UpdateMemoryResume(c, TRUE)
     /\ \A id \in RelIdArgs :
          /\ DeleteRelationship(id) => UNCHANGED memories
          /\ \A strength \in OptionOf({900}), metadata \in OptionOf({EmptyObject}) :
               UpdateRelationship(id, strength, metadata) =>
                  /\ UNCHANGED memories
                  /\ DOMAIN relationships' = DOMAIN relationships
                  /\ \A r \in DOMAIN relationships :
                       /\ r # id => relationships'[r] = relationships[r]
                       /\ relationships'[r].from_memory_id = relationships[r].from_memory_id
                       /\ relationships'[r].to_memory_id = relationships[r].to_memory_id
                       /\ relationships'[r].relationship_type
                            = relationships[r].relationship_type
                       /\ relationships'[r].created_at = relationships[r].created_at
                       /\ ~IsSome(strength) =>
                            relationships'[r].strength = relationships[r].strength
                       /\ ~IsSome(metadata) =>
                            relationships'[r].metadata = relationships[r].metadata
     /\ \A from \in IdArgs, to \in IdArgs :
          AddRelationship(from, to, "relates_to", 300, EmptyObject) =>
             UNCHANGED memories]_vars

\* an updateRelationship has set the strength of a relationship whose
\* endpoint still has the updated_at it was created with
C26_Witness ==
  /\ last.op = "updateRelationship" /\ last.ret
  /\ last.id \in DOMAIN relationships /\ relationships[last.id].strength = 900
  /\ LET from == relationships[last.id].from_memory_id
     IN memories[from].updated_at = memories[from].created_at

-----------------------------------------------------------------------------
(* Claims checked under SpecConcurrent: the embedding request *)

\* the step sends one embedding request (one call more is suspended) and
\* neither writes the store nor completes a call
SendsOneRequest ==
  /\ calls \subseteq calls' /\ Cardinality(calls' \ calls) = 1
  /\ UNCHANGED <<storage, last>>

\* the resumption of call c: the call leaves and no request is sent again;
\* when the request failed the call rejects and the store is as it was
ResumesOnce(c) ==
  /\ calls' = calls \ {c}
  /\ \A embedded \in BOOLEAN :
       (AddMemoryResume(c, embedded) \/ UpdateMemoryResume(c, embedded)) =>
          /\ last'.threw <=> ~embedded
          /\ ~embedded => UNCHANGED storage

\* C27 as stated: addMemory, and updateMemory with content, send their
\* embedding request, once, before they read or write the store: whatever
\* the store holds, the call is suspended at its request with the store
\* untouched, and all it does to the store it does when it resumes.
C27_RequestBeforeStorage ==
  [][/\ \A content \in Contents2 :
          AddMemoryBegin(content, EmptyObject) => SendsOneRequest
     /\ \A id \in IdArgs, content \in Contents2 :
          UpdateMemoryBegin(id, Some(content), None) => SendsOneRequest
     /\ \A c \in calls :
          (\E embedded \in BOOLEAN :
             AddMemoryResume(c, embedded) \/ UpdateMemoryResume(c, embedded))
             => ResumesOnce(c)]_vars

\* C27: addMemory, and updateMemory with content, write nothing to the
\* store before their embedding request has completed, and send the
\* request once at most, without retry.  addMemory reads nothing before;
\* updateMemory first reads the memory row: when the memory exists it sends
\* the request, when it does not it returns false without calling the
\* provider.
C27_WritesAfterRequest ==
  [][/\ \A content \in Contents2 :
          AddMemoryBegin(content, EmptyObject) => SendsOneRequest
     /\ \A id \in IdArgs, content \in Contents2 :
          UpdateMemoryBegin(id, Some(content), None) =>
             /\ UNCHANGED storage
             /\ id \in DOMAIN memories => SendsOneRequest
             /\ id \notin DOMAIN memories =>
                  /\ UNCHANGED calls
                  /\ last'.op = "updateMemory" /\ ~last'.ret /\ ~last'.threw
     /\ \A c \in calls :
          (\E embedded \in BOOLEAN :
             AddMemoryResume(c, embedded) \/ UpdateMemoryResume(c, embedded))
             => ResumesOnce(c)]_vars

\* an updateMemory with content has resumed and written the content while
\* another call was suspended at its request
C27_Witness ==
  /\ last.op = "updateMemory" /\ last.ret /\ IsSome(last.content)
  /\ memories[last.id].content = Val(last.content)
  /\ calls # {}

-----------------------------------------------------------------------------
(* Claims checked under SpecServer *)

InitOrder == <<"ensureOllamaRunning", "ensureModelExists", "initializeMemory">>

\* a request handler has run, or is suspended in a service call
HandlerRan ==
  \/ last.op \notin {"main", "createMCPServer"}
  \/ \E c \in calls : c.op # "createMCPServer"

\* C28: createMCPServer calls ensureOllamaRunning, ensureModelExists and
\* initializeMemory once each, in this order, and registers the request
\* handlers after them; a handler runs only on a server whose three
\* initialization calls have succeeded, and when one of them fails
\* createMCPServer fails and no handler is registered.
C28_InitBeforeServe ==
  /\ [](\A s \in calls :
          s.op = "createMCPServer" =>
             /\ s.log = SubSeq(InitOrder, 1, Len(s.log))
             /\ s.pc = "ensureOllamaRunning" => Len(s.log) = 1
             /\ s.pc = "ensureModelExists" => Len(s.log) = 2
             /\ s.pc = "serving" => s.log = InitOrder)
  /\ [](HandlerRan => Serving)
  /\ []((last.op = "createMCPServer" /\ last.threw) =>
          /\ ~Serving
          /\ last.log = SubSeq(InitOrder, 1, Len(last.log)))
  /\ []((last.op = "createMCPServer" /\ ~last.threw) =>
          Serving /\ last.log = InitOrder)
  /\ [][\A name \in {"add_memory", "get_memory", "delete_memory",
                     "update_memory", "list_memories"} :
          \A args \in ToolArgs(name) : CallTool(name, args) => Serving]_vars

\* a memory was added through a request handler of the server
C28_Witness ==
  /\ Serving
  /\ last.op = "addMemory" /\ ~last.threw /\ last.ret \in DOMAIN memories

-----------------------------------------------------------------------------
(* Claims checked under SpecConcurrent: concurrent updates *)

-----------------------------------------------------------------------------
(* Claims checked under SpecConcurrent: a delete during an update *)

\* C30: when deleteMemory(id) has run while an updateMemory(id, content) was
\* suspended at its embedding request, the update, resumed with the
\* embedding, returns false, and it re-creates neither the memory row nor an
\* embedding row of id (resumed with a failure of the provider it rejects,
\* and writes nothing either).
C30_NoResurrection ==
  [][\A c \in calls :
       (c.op = "updateMemory" /\ c.id \notin DOMAIN memories) =>
          /\ UpdateMemoryResume(c, TRUE) =>
               /\ last'.op = "updateMemory" /\ last'.id = c.id
               /\ ~last'.ret /\ ~last'.threw
               /\ UNCHANGED memories
               /\ c.id \notin DOMAIN embeddings => c.id \notin DOMAIN embeddings'
          /\ UpdateMemoryResume(c, FALSE) =>
               last'.threw /\ UNCHANGED storage]_vars

\* an updateMemory that was suspended at its request has returned false:
\* its memory, which had an embedding row, was deleted meanwhile, and
\* neither row is there
C30_Witness ==
  /\ last.op = "updateMemory" /\ "suspended" \in DOMAIN last
  /\ ~last.ret /\ ~last.threw
  /\ vecAvailable
  /\ last.id \notin DOMAIN memories /\ last.id \notin DOMAIN embeddings

-----------------------------------------------------------------------------
(* Claims checked under SpecResults *)

\* C31: every memory that searchMemories (by its vector statement or by its
\* LIKE statement) or getConnectedMemories returns is a row of the memories
\* table when the statement runs, and is that row as getMemory maps it: a
\* row of the index that outlived its memory, or an id that resolves to no
\* memory, is never in a result.
C31_ResultsExist ==
  [][last'.op \in {"searchMemories", "getConnectedMemories"} =>
       \A i \in DOMAIN last'.ret :
          /\ last'.ret[i].id \in DOMAIN memories
          /\ last'.ret[i] = RowToMemory(last'.ret[i].id)]_vars

\* a search by the vector statement has returned a memory while the index
\* holds the row of a deleted memory that is as close to the query
C31_Witness ==
  /\ last.op = "searchMemories" /\ ~last.providerFailed /\ vecAvailable
  /\ Len(last.ret) > 0
  /\ \E id \in DOMAIN embeddings \ DOMAIN memories :
       vec_distance_cosine(embeddings[id], Embed(last.query)) < 1000 - last.threshold

====
